---- MODULE Spec2Model ----
(***************************************************************************)
(* ccx: account lifecycle and credential consistency.                      *)
(*                                                                         *)
(* The three orchestrators (AddAccountService, SwitchAccountService,       *)
(* RemoveAccountService) are modelled call by call: every call to a port   *)
(* (AccountRepository, CredentialStore, ConfigManager, HistoryRepository)  *)
(* is one atomic step that either succeeds or fails, and the pure code     *)
(* between two port calls belongs to the step of the call that follows or  *)
(* precedes it.  The account repository and the credential store follow    *)
(* the file adapters, the config manager and the history repository the    *)
(* in-memory implementations of the use-case tests.                        *)
(***************************************************************************)
EXTENDS Integers, Sequences, FiniteSets, TLC

\* ------------------------------------------------------------------ bounds
NumIDs == 2          \* account IDs GenerateAccountID can return: 1..NumIDs
MaxAccounts == 2     \* Add is started only while fewer accounts are stored
MaxClock == 1        \* the clock stops after that many ticks
MaxHistory == 2      \* Switch is started only while the ledger is shorter
                     \* (by the previous flag: not longer)
MaxInserted == 4     \* entries given to a History on its own between two Clears
MaxTrackerArg == 3   \* a History on its own is made with an argument up to this
MaxPayload == 2      \* credentials sealed on their own have up to that many bytes

\* ------------------------------------------------------- program constants
DefaultMaxEntries == 10      \* NewHistory default
NonceSize == 12              \* gcm.NonceSize(): the standard GCM nonce
MockMaxEntries == 10         \* newMockHistoryRepository: NewHistory(10)
FallbackMaxEntries == 50     \* saveToHistory: NewHistory(50) when load fails

\* --------------------------------------------------------------- alphabets
Lower == {"a","b","c","d","e","f","g","h","i","j","k","l","m","n","o","p",
          "q","r","s","t","u","v","w","x","y","z"}
Upper == {"A","B","C","D","E","F","G","H","I","J","K","L","M","N","O","P",
          "Q","R","S","T","U","V","W","X","Y","Z"}
Digit == {"0","1","2","3","4","5","6","7","8","9"}
Letters == Lower \cup Upper
LocalChars == Letters \cup Digit \cup {".","_","%","+","-"}
DomainChars == Letters \cup Digit \cup {".","-"}
AliasChars == Letters \cup Digit \cup {"_","-"}

\* Strings are sequences of one-character strings.
EmailP == <<"p","@","x",".","i","o">>
EmailW == <<"w","@","x",".","i","o">>
EmailDotted == <<"a",".","b","@","x",".","i","o">>
EmailBad == <<"p","@","x">>
AliasSpaced == <<"a"," ","b">>
AliasP == <<"p">>
AliasW == <<"w">>
Empty == <<>>

IDs == 1..NumIDs
NoID == 0                    \* the empty AccountID ""
Procs == {"c1", "c2"}
Main == "c1"

\* nil *domain.Account
NoAccount == [id |-> NoID, email |-> Empty, alias |-> Empty, uuid |-> Empty,
              lastUsed |-> 0]
\* nil *domain.Credentials / absent credentials file (a payload is never empty)
NoCreds == Empty
\* nil *AccountInfo
NoInfo == [ID |-> NoID, Email |-> Empty, Alias |-> Empty, UUID |-> Empty]

\* ------------------------------------------------------------ domain layer
AllIn(s, lo, hi, set) == \A k \in lo..hi : s[k] \in set

\* emailRegex ^[a-zA-Z0-9._%+-]+@[a-zA-Z0-9.-]+\.[a-zA-Z]{2,}$
emailRegex(e) ==
    \E i \in 2..Len(e) : \E j \in (i + 2)..(Len(e) - 2) :
        /\ AllIn(e, 1, i - 1, LocalChars)
        /\ e[i] = "@"
        /\ AllIn(e, i + 1, j - 1, DomainChars)
        /\ e[j] = "."
        /\ AllIn(e, j + 1, Len(e), Letters)

\* ValidateEmail: "" when valid, else the error
ValidateEmail(e) ==
    IF e = Empty THEN "email cannot be empty"
    ELSE IF ~emailRegex(e) THEN "invalid email format"
    ELSE ""

\* validateAlias: "" when valid, else the error
validateAlias(a) ==
    IF \E k \in 1..Len(a) : a[k] = " " THEN "alias cannot contain spaces"
    ELSE IF ~(Len(a) >= 1 /\ AllIn(a, 1, Len(a), AliasChars))
         THEN "alias can only contain letters, numbers, hyphens, and underscores"
    ELSE ""

\* NewAccount's validation: "" when the account can be built
NewAccountErr(email, alias, uuid) ==
    IF ValidateEmail(email) # "" THEN ValidateEmail(email)
    ELSE IF uuid = Empty THEN "uuid cannot be empty"
    ELSE IF alias # Empty /\ validateAlias(alias) # "" THEN validateAlias(alias)
    ELSE ""

\* NewAccount with the ID GenerateAccountID returned and the time time.Now()
\* returned (createdAt, which nothing changes, is not modelled)
NewAccount(id, email, alias, uuid, t) ==
    [id |-> id, email |-> email, alias |-> alias, uuid |-> uuid, lastUsed |-> t]

\* mutant of NewSwitchEntryErr: equal emails are accepted
NewSwitchEntryErr_SameAllowed(from, to) ==
    IF from = Empty THEN "from email cannot be empty"
    ELSE IF to = Empty THEN "to email cannot be empty"
    ELSE ""

\* NewSwitchEntry: "" when the entry can be built
NewSwitchEntryErr(from, to) ==
    IF from = Empty THEN "from email cannot be empty"
    ELSE IF to = Empty THEN "to email cannot be empty"
    ELSE IF from = to THEN "cannot switch to the same account"
    ELSE ""

NewSwitchEntry(from, to) == [from |-> from, to |-> to]

NewHistory(maxEntries) ==
    [entries |-> <<>>,
     maxEntries |-> IF maxEntries <= 0 THEN DefaultMaxEntries ELSE maxEntries]

\* mutant of AddEntry: the ledger is not trimmed
AddEntry_Untrimmed(h, entry) == [h EXCEPT !.entries = <<entry>> \o h.entries]

\* History.AddEntry: prepend, then trim to maxEntries
AddEntry(h, entry) ==
    LET all == <<entry>> \o h.entries
    IN  [h EXCEPT !.entries = IF Len(all) > h.maxEntries
                              THEN SubSeq(all, 1, h.maxEntries) ELSE all]

\* History.Entries: a copy of the entries, newest first
Entries(h) == h.entries

\* History.Clear
Clear(h) == [h EXCEPT !.entries = <<>>]

\* mutant of GetLastSwitch: the oldest entry
GetLastSwitch_Oldest(h) == h.entries[Len(h.entries)]

\* History.GetLastSwitch: the newest entry; callers test the ledger first
GetLastSwitch(h) == h.entries[1]

\* ------------------------------------------------------------ Credentials
\* Bytes are the numbers 0..255.  AES-GCM is the library's: it is modelled by a
\* stream cipher and a tag that, over the inputs tried, no other key, nonce or
\* ciphertext shares.

\* nil *Credentials
NoCredentials == [accountID |-> NoID, encryptedData |-> <<>>, encryptionKey |-> <<>>]
\* the result of a decryption: the plaintext, or the error
Plain(data) == [ok |-> TRUE, data |-> data, err |-> ""]
Failed(err) == [ok |-> FALSE, data |-> <<>>, err |-> err]

\* deriveKey: sha256("ccx-encryption-" + accountID), kept as the term hashed
deriveKey(accountID) == <<"sha256", "ccx-encryption-", accountID>>

\* the byte the cipher adds to the k-th plaintext byte
Stream(key, nonce, k) == (key[3] * 31 + nonce[1] * 7 + k * 3) % 256

RECURSIVE Weighted(_, _)
\* the sum of position times byte over the first k bytes
Weighted(bytes, k) == IF k = 0 THEN 0 ELSE k * bytes[k] + Weighted(bytes, k - 1)

\* the authentication tag over key, nonce and ciphertext, as three bytes
Tag(key, nonce, ct) ==
    LET t == key[3] * 65536 + Weighted(nonce \o ct, Len(nonce) + Len(ct))
    IN  <<t \div 65536, (t \div 256) % 256, t % 256>>

\* gcm.Seal(nonce, nonce, plaintext, nil): nonce, ciphertext, tag
Seal(key, nonce, plaintext) ==
    LET ct == [k \in 1..Len(plaintext) |-> (plaintext[k] + Stream(key, nonce, k)) % 256]
    IN  nonce \o ct \o Tag(key, nonce, ct)

\* mutant of Open: the tag is not compared
Open_Unauthenticated(key, nonce, body) ==
    IF Len(body) < 3 THEN Failed("cipher: message authentication failed")
    ELSE LET ct == SubSeq(body, 1, Len(body) - 3)
         IN  Plain([k \in 1..Len(ct) |-> (ct[k] - Stream(key, nonce, k) + 256) % 256])

\* gcm.Open(nil, nonce, body, nil)
Open(key, nonce, body) ==
    IF Len(body) < 3 THEN Failed("cipher: message authentication failed")
    ELSE LET ct == SubSeq(body, 1, Len(body) - 3)
             tag == SubSeq(body, Len(body) - 2, Len(body))
         IN  IF tag # Tag(key, nonce, ct)
             THEN Failed("cipher: message authentication failed")
             ELSE Plain([k \in 1..Len(ct) |-> (ct[k] - Stream(key, nonce, k) + 256) % 256])

\* encrypt, with the nonce rand.Reader gave
encrypt(plaintext, key, nonce) == Seal(key, nonce, plaintext)

\* decrypt
decrypt(ciphertext, key) ==
    IF Len(ciphertext) < NonceSize THEN Failed("ciphertext too short")
    ELSE Open(key, SubSeq(ciphertext, 1, NonceSize),
              SubSeq(ciphertext, NonceSize + 1, Len(ciphertext)))

\* NewCredentials' validation: "" when the credentials can be built
NewCredentialsErr(accountID, data) ==
    IF accountID = NoID THEN "account ID cannot be empty"
    ELSE IF Len(data) = 0 THEN "credentials data cannot be empty"
    ELSE ""

\* NewCredentials, with the nonce rand.Reader gave
NewCredentials(accountID, data, nonce) ==
    [accountID |-> accountID,
     encryptedData |-> encrypt(data, deriveKey(accountID), nonce),
     encryptionKey |-> deriveKey(accountID)]

\* Credentials.Decrypt
Decrypt(c) == decrypt(c.encryptedData, c.encryptionKey)

\* mutant of UpdateData: the new payload is sealed and dropped
UpdateData_Unchanged(c, newData, nonce) == c

\* Credentials.UpdateData of a non-empty payload, with the nonce rand.Reader gave
UpdateData(c, newData, nonce) ==
    [c EXCEPT !.encryptedData = encrypt(newData, c.encryptionKey, nonce)]

\* the base64 alphabet of base64.StdEncoding; its padding is "="
B64Chars ==
    <<"A","B","C","D","E","F","G","H","I","J","K","L","M","N","O","P",
      "Q","R","S","T","U","V","W","X","Y","Z","a","b","c","d","e","f",
      "g","h","i","j","k","l","m","n","o","p","q","r","s","t","u","v",
      "w","x","y","z","0","1","2","3","4","5","6","7","8","9","+","/">>

\* base64.StdEncoding.EncodeToString
EncodeToString(bytes) ==
    LET n == Len(bytes)
        At(i) == IF i <= n THEN bytes[i] ELSE 0
        Group(q) == At(3 * q + 1) * 65536 + At(3 * q + 2) * 256 + At(3 * q + 3)
    IN  [k \in 1..(4 * ((n + 2) \div 3)) |->
            LET q == (k - 1) \div 4
                j == (k - 1) % 4
            IN  IF 3 * q + j > n THEN "="
                ELSE B64Chars[((Group(q) \div <<262144, 4096, 64, 1>>[j + 1]) % 64) + 1]]

\* the number of padding characters a text ends with
Padding(text) ==
    IF Len(text) >= 2 /\ text[Len(text)] = "=" /\ text[Len(text) - 1] = "=" THEN 2
    ELSE IF Len(text) >= 1 /\ text[Len(text)] = "=" THEN 1
    ELSE 0

\* base64.StdEncoding.DecodeString fails on this text
DecodeStringErr(text) ==
    \/ Len(text) % 4 # 0
    \/ \E k \in 1..(Len(text) - Padding(text)) : \A v \in 1..64 : B64Chars[v] # text[k]

\* base64.StdEncoding.DecodeString of a text it accepts
DecodeString(text) ==
    LET Value(k) == IF text[k] = "=" THEN 0
                    ELSE (CHOOSE v \in 1..64 : B64Chars[v] = text[k]) - 1
        Group(q) == Value(4 * q + 1) * 262144 + Value(4 * q + 2) * 4096
                    + Value(4 * q + 3) * 64 + Value(4 * q + 4)
    IN  [i \in 1..(3 * (Len(text) \div 4) - Padding(text)) |->
            (Group((i - 1) \div 3) \div <<65536, 256, 1>>[((i - 1) % 3) + 1]) % 256]

\* no serialized data
NoDocument == [accountId |-> NoID, encryptedData |-> <<>>]

\* Credentials.Serialize: the JSON document
Serialize(c) ==
    [accountId |-> c.accountID, encryptedData |-> EncodeToString(c.encryptedData)]

\* DeserializeCredentials' validation: "" when the credentials can be rebuilt
DeserializeCredentialsErr(document) ==
    IF document = NoDocument THEN "empty serialization data"
    ELSE IF document.accountId = NoID THEN "missing account ID in serialized data"
    ELSE IF document.encryptedData = <<>> THEN "missing encrypted data in serialized data"
    ELSE IF DecodeStringErr(document.encryptedData) THEN "illegal base64 data"
    ELSE ""

\* DeserializeCredentials of a document it accepts
DeserializeCredentials(document) ==
    [accountID |-> document.accountId,
     encryptedData |-> DecodeString(document.encryptedData),
     encryptionKey |-> deriveKey(document.accountId)]

\* ------------------------------------------- FileAccountRepository (pure)
\* index of the first stored record whose field has the value, 0 when there is none
FirstIndex(accts, field, value) ==
    IF \E k \in 1..Len(accts) : accts[k][field] = value
    THEN CHOOSE k \in 1..Len(accts) :
             accts[k][field] = value /\ \A m \in 1..(k - 1) : accts[m][field] # value
    ELSE 0

FindFirst(accts, field, value) ==
    IF FirstIndex(accts, field, value) = 0 THEN NoAccount
    ELSE accts[FirstIndex(accts, field, value)]

FindByID(accts, id) == FindFirst(accts, "id", id)
FindByEmail(accts, email) == FindFirst(accts, "email", email)
FindByAlias(accts, alias) == FindFirst(accts, "alias", alias)

\* Save: replace the record with the same ID in place, else append
RepoSave(accts, a) ==
    LET k == FirstIndex(accts, "id", a.id)
    IN  IF k = 0 THEN Append(accts, a) ELSE [accts EXCEPT ![k] = a]

\* Delete: drop the record with that ID (the caller tests that it exists)
RepoDelete(accts, id) ==
    LET k == FirstIndex(accts, "id", id)
    IN  SubSeq(accts, 1, k - 1) \o SubSeq(accts, k + 1, Len(accts))

\* ------------------------------------------------------------ use cases
\* accountToInfo (CreatedAt is not modelled)
accountToInfo(a) == [ID |-> a.id, Email |-> a.email, Alias |-> a.alias, UUID |-> a.uuid]

\* "explicit-" + strings.ReplaceAll(email, "@", "-")
ExplicitUUID(email) ==
    <<"explicit-">> \o [k \in 1..Len(email) |-> IF email[k] = "@" THEN "-" ELSE email[k]]

\* the placeholder payload built from the uuid when no credentials are given
Placeholder(uuid) == <<"{account_id:">> \o uuid \o <<",session_key:placeholder}">>

\* generateAlias: the given alias, else strings.Split(email, "@")[0]
generateAlias(inputAlias, email) ==
    IF inputAlias # Empty THEN inputAlias
    ELSE LET ats == {k \in 1..Len(email) : email[k] = "@"}
         IN  IF ats = {} THEN email
             ELSE SubSeq(email, 1, (CHOOSE k \in ats : \A m \in ats : k <= m) - 1)

\* ------------------------------------------------------------------ state
VARIABLES
    accounts,       \* accounts.json: the stored account records, in file order
    credentials,    \* credentials/<id>.json: payload per account ID, or NoCreds
    currentAccount, \* the config manager's current account, or NoAccount
    history,        \* the history repository's ledger
    pc,             \* per caller: the step its call is at ("idle", ..., "done")
    op,             \* per caller: the call's name and input
    loc,            \* per caller: the call's local variables
    calls,          \* per caller: the port calls its call made, with outcome
    pre,            \* per caller: the stores as they were when the call began
    result,         \* per caller: what its call returned
    now,            \* the wall clock time.Now() reads, in ticks
    tracker,        \* a History used on its own
    inserted,       \* the entries given to it since it was made or cleared, newest first
    maxArg,         \* the argument it was made with
    listed,         \* what its Entries returned last
    cred,           \* a Credentials used on its own, or NoCredentials
    credOf,         \* the account ID and payload it was sealed from, if it still is
    doc,            \* the serialized credentials on disk, or NoDocument
    docOf,          \* the account ID and payload they were sealed from, if still so
    opened,         \* what Decrypt returned for cred, if it was called
    mu,             \* the FileAccountRepository's RWMutex: its writer and its readers
    loaded,         \* per caller: what loadAccounts returned to its repository call
    committed,      \* the IDs last written by a Save and not by a Delete since
    configFile,     \* .claude.json as a BasicConfigManager used on its own finds it
    last,           \* the last call made to that manager, and what it returned
    prior           \* the call made before it, and what it returned

\* the domain objects exercised on their own, outside the use cases
trackerVars == <<tracker, inserted, maxArg, listed>>
credVars == <<cred, credOf, doc, docOf, opened>>
fileVars == <<mu, loaded, committed>>
configVars == <<configFile, last, prior>>
objects == <<trackerVars, credVars, fileVars, configVars>>
vars == <<accounts, credentials, currentAccount, history, pc, op, loc, calls, pre, result,
          now, objects>>
stores == <<accounts, credentials, currentAccount, history>>

NoOp == [name |-> "none", email |-> Empty, alias |-> Empty, data |-> NoCreds,
         accountID |-> NoID, index |-> 0, previous |-> FALSE, cancelled |-> FALSE]

NoLoc == [email |-> Empty, uuid |-> Empty, data |-> NoCreds, account |-> NoAccount,
          cur |-> NoAccount, isCurrent |-> FALSE, isLast |-> FALSE,
          backup |-> NoCreds, hist |-> NewHistory(0), shared |-> FALSE, err |-> ""]

NoResult == [ok |-> FALSE, err |-> "", From |-> NoInfo, To |-> NoInfo,
             Removed |-> NoInfo, WasCurrentAccount |-> FALSE, WasLastAccount |-> FALSE,
             Listing |-> <<>>]

Snapshot == [accounts |-> accounts, credentials |-> credentials,
             currentAccount |-> currentAccount, history |-> history]
NoSnapshot == [accounts |-> <<>>, credentials |-> [i \in IDs |-> NoCreds],
               currentAccount |-> NoAccount, history |-> NewHistory(0)]

\* the identity the client application may have configured before ccx runs
ExternalIdentity(id) == NewAccount(id, EmailP, Empty, <<"uuid-123">>, 0)

\* sealed from nothing
NoOrigin == [id |-> NoID, data |-> <<>>, genuine |-> FALSE,
             updated |-> FALSE, restored |-> FALSE]
\* Decrypt was not called
NotOpened == Failed("not called")

\* no History is in use on its own
NoTracker ==
    /\ tracker = NewHistory(0)
    /\ inserted = <<>>
    /\ maxArg = 0
    /\ listed = <<>>

\* no Credentials are in use on their own
NoCred ==
    /\ cred = NoCredentials
    /\ credOf = NoOrigin
    /\ doc = NoDocument
    /\ docOf = NoOrigin
    /\ opened = NotOpened

\* sync.RWMutex, unlocked
Unlocked == [writer |-> "none", readers |-> {}]

\* no repository call is running on its own
NoFileCalls ==
    /\ mu = Unlocked
    /\ loaded = [p \in Procs |-> <<>>]
    /\ committed = {}

\* the oauthAccount entry of .claude.json, when the file has none
NoOAuth == [present |-> FALSE, emailAddress |-> Empty, accountUuid |-> Empty]

\* .claude.json does not exist
AbsentFile == [kind |-> "absent", oauth |-> NoOAuth, rest |-> <<>>]

\* no call was made to the manager
NoConfigCall == [name |-> "none", arg |-> NoAccount, account |-> NoAccount,
                 err |-> "", before |-> AbsentFile]

\* no BasicConfigManager is in use on its own
NoConfigCalls ==
    /\ configFile = AbsentFile
    /\ last = NoConfigCall
    /\ prior = NoConfigCall

\* no domain object or adapter is in use on its own
NoObjects == NoTracker /\ NoCred /\ NoFileCalls /\ NoConfigCalls

Init ==
    /\ NoObjects
    /\ accounts = <<>>
    /\ credentials = [i \in IDs |-> NoCreds]
    /\ currentAccount \in {NoAccount, ExternalIdentity(1)}
    /\ history = NewHistory(MockMaxEntries)
    /\ pc = [p \in Procs |-> "idle"]
    /\ op = [p \in Procs |-> NoOp]
    /\ loc = [p \in Procs |-> NoLoc]
    /\ calls = [p \in Procs |-> <<>>]
    /\ pre = [p \in Procs |-> NoSnapshot]
    /\ result = [p \in Procs |-> NoResult]
    /\ now = 0

\* ----------------------------------------------------------- step helpers
Call(name, ok) == [name |-> name, ok |-> ok]

\* the call of p goes on to step next, having made the port call c
Goto(p, next, c, l) ==
    /\ pc' = [pc EXCEPT ![p] = next]
    /\ calls' = [calls EXCEPT ![p] = Append(@, c)]
    /\ loc' = [loc EXCEPT ![p] = l]
    /\ UNCHANGED <<op, pre, result, now, objects>>

\* the call of p returns r, having made the port call c, its locals being l
ReturnWith(p, c, r, l) ==
    /\ pc' = [pc EXCEPT ![p] = "done"]
    /\ calls' = [calls EXCEPT ![p] = Append(@, c)]
    /\ result' = [result EXCEPT ![p] = r]
    /\ loc' = [loc EXCEPT ![p] = l]
    /\ UNCHANGED <<op, pre, now, objects>>

\* the call of p returns r, having made the port call c
Return(p, c, r) == ReturnWith(p, c, r, loc[p])

\* the call of p returns r without a further port call
ReturnNow(p, r) ==
    /\ pc' = [pc EXCEPT ![p] = "done"]
    /\ result' = [result EXCEPT ![p] = r]
    /\ UNCHANGED <<op, loc, pre, calls, now, objects>>

\* the call of p goes on to step next without a port call
GotoNow(p, next, l) ==
    /\ pc' = [pc EXCEPT ![p] = next]
    /\ loc' = [loc EXCEPT ![p] = l]
    /\ UNCHANGED <<op, pre, result, calls, now, objects>>

Fail(e) == [NoResult EXCEPT !.err = e]
Success == [NoResult EXCEPT !.ok = TRUE]

\* a caller starts a call: its input is fixed and the stores are remembered
Begin(p, o, first) ==
    /\ pc[p] = "idle"
    /\ pc' = [pc EXCEPT ![p] = first]
    /\ op' = [op EXCEPT ![p] = o]
    /\ loc' = [loc EXCEPT ![p] = NoLoc]
    /\ calls' = [calls EXCEPT ![p] = <<>>]
    /\ pre' = [pre EXCEPT ![p] = Snapshot]
    /\ result' = [result EXCEPT ![p] = NoResult]
    /\ UNCHANGED <<stores, now, objects>>

\* the caller has its result and is ready for its next call
Finish(p) ==
    /\ pc[p] = "done"
    /\ pc' = [pc EXCEPT ![p] = "idle"]
    /\ op' = [op EXCEPT ![p] = NoOp]
    /\ loc' = [loc EXCEPT ![p] = NoLoc]
    /\ calls' = [calls EXCEPT ![p] = <<>>]
    /\ pre' = [pre EXCEPT ![p] = NoSnapshot]
    /\ result' = [result EXCEPT ![p] = NoResult]
    /\ UNCHANGED <<stores, now, objects>>

\* ------------------------------------------------------ AddAccountService
AddInput(e, a, d, c) ==
    [NoOp EXCEPT !.name = "add", !.email = e, !.alias = a, !.data = d, !.cancelled = c]

\* the inputs tried: the configured identity, explicit accounts, invalid input
AddInputs ==
    {AddInput(Empty, Empty, <<"d1">>, FALSE),
     AddInput(EmailP, Empty, <<"d1">>, FALSE),
     AddInput(EmailW, Empty, <<"d1">>, FALSE),
     AddInput(EmailW, Empty, <<"d1">>, TRUE),
     AddInput(EmailP, Empty, NoCreds, FALSE),
     AddInput(EmailBad, Empty, <<"d1">>, FALSE),
     AddInput(EmailDotted, Empty, <<"d1">>, FALSE),
     AddInput(EmailP, AliasSpaced, <<"d1">>, FALSE)}

\* Execute is called with some input
AddStart(p) ==
    /\ Len(accounts) < MaxAccounts
    /\ \E o \in AddInputs : Begin(p, o, "add_details")

\* determineAccountDetails
AddDetails(p) ==
    /\ pc[p] = "add_details"
    /\ UNCHANGED stores
    /\ IF op[p].email # Empty
       THEN IF op[p].data = NoCreds
            THEN ReturnNow(p, Fail("CredentialsRequired"))
            ELSE GotoNow(p, "add_check",
                         [loc[p] EXCEPT !.email = op[p].email,
                                        !.uuid = ExplicitUUID(op[p].email),
                                        !.data = op[p].data])
       ELSE \E ok \in BOOLEAN :
            IF ~ok
            THEN Return(p, Call("GetCurrentAccount", FALSE), Fail("ConfigReadError"))
            ELSE IF currentAccount = NoAccount
            THEN Return(p, Call("GetCurrentAccount", TRUE), Fail("NoCurrentIdentity"))
            ELSE Goto(p, "add_check", Call("GetCurrentAccount", TRUE),
                      [loc[p] EXCEPT !.email = currentAccount.email,
                                     !.uuid = currentAccount.uuid,
                                     !.data = IF op[p].data # NoCreds THEN op[p].data
                                              ELSE Placeholder(currentAccount.uuid)])

\* checkAccountExists: only a lookup that returns no error reports a duplicate
AddCheck(p) ==
    /\ pc[p] = "add_check"
    /\ UNCHANGED stores
    /\ \E ok \in BOOLEAN :
       IF ok /\ FindByEmail(accounts, loc[p].email) # NoAccount
       THEN Return(p, Call("FindByEmail", TRUE), Fail("DuplicateAccount"))
       ELSE Goto(p, "add_store",
                 Call("FindByEmail", ok /\ FindByEmail(accounts, loc[p].email) # NoAccount),
                 loc[p])

\* mutant of StoreFailed: the error of credentials.Store is not looked at
StoreFailed_Ignored(p, account) ==
    Goto(p, "add_save", Call("Store", FALSE), [loc[p] EXCEPT !.account = account])

\* createAndSaveAccount: credentials.Store returned an error
StoreFailed(p, account) ==
    ReturnWith(p, Call("Store", FALSE), Fail("CredentialStoreFailed"),
               [loc[p] EXCEPT !.account = account])

\* mutant of AddStore: the credentials are stored before the account is validated
AddStore_StoreFirst(p) ==
    /\ pc[p] = "add_store"
    /\ UNCHANGED <<accounts, currentAccount, history>>
    /\ \E id \in IDs :
       LET alias == generateAlias(op[p].alias, loc[p].email)
       IN  /\ credentials' = [credentials EXCEPT ![id] = loc[p].data]
           /\ IF NewAccountErr(loc[p].email, alias, loc[p].uuid) # ""
              THEN Return(p, Call("Store", TRUE), Fail("ValidationError"))
              ELSE Goto(p, "add_save", Call("Store", TRUE),
                        [loc[p] EXCEPT !.account =
                            NewAccount(id, loc[p].email, alias, loc[p].uuid, now)])

\* generateAlias, then createAndSaveAccount up to credentials.Store
AddStore(p) ==
    /\ pc[p] = "add_store"
    /\ UNCHANGED <<accounts, currentAccount, history>>
    /\ LET alias == generateAlias(op[p].alias, loc[p].email)
       IN  IF NewAccountErr(loc[p].email, alias, loc[p].uuid) # ""
           THEN /\ ReturnNow(p, Fail("ValidationError"))
                /\ UNCHANGED credentials
           ELSE \E id \in IDs, ok \in BOOLEAN :
                LET account == NewAccount(id, loc[p].email, alias, loc[p].uuid, now)
                IN  IF ok
                    THEN /\ credentials' = [credentials EXCEPT ![id] = loc[p].data]
                         /\ Goto(p, "add_save", Call("Store", TRUE),
                                 [loc[p] EXCEPT !.account = account])
                    ELSE /\ UNCHANGED credentials
                         /\ StoreFailed(p, account)

\* accounts.Save
AddSave(p) ==
    /\ pc[p] = "add_save"
    /\ UNCHANGED <<credentials, currentAccount, history>>
    /\ \E ok \in BOOLEAN :
       IF ok
       THEN /\ accounts' = RepoSave(accounts, loc[p].account)
            /\ Return(p, Call("Save", TRUE), Success)
       ELSE /\ UNCHANGED accounts
            /\ Goto(p, "add_cleanup", Call("Save", FALSE), loc[p])

\* mutant of AddCleanup: the error is returned without the clean-up
AddCleanup_NoDelete(p) ==
    /\ pc[p] = "add_cleanup"
    /\ UNCHANGED stores
    /\ ReturnNow(p, Fail("AccountSaveFailed"))

\* the clean-up after a failed Save: credentials.Delete, its error dropped
AddCleanup(p) ==
    /\ pc[p] = "add_cleanup"
    /\ UNCHANGED <<accounts, currentAccount, history>>
    /\ \E ok \in BOOLEAN :
       LET deleted == ok /\ credentials[loc[p].account.id] # NoCreds
       IN  /\ credentials' = IF deleted
                             THEN [credentials EXCEPT ![loc[p].account.id] = NoCreds]
                             ELSE credentials
           /\ Return(p, Call("Delete", deleted), Fail("AccountSaveFailed"))

\* --------------------------------------------------- SwitchAccountService
Selector(id, e, a, i, prev, c) ==
    [NoOp EXCEPT !.name = "switch", !.accountID = id, !.email = e, !.alias = a,
                 !.index = i, !.previous = prev, !.cancelled = c]

\* the inputs tried: each selector alone, none, several, a cancelled context
SwitchInputs ==
    {Selector(id, Empty, Empty, 0, FALSE, FALSE) : id \in IDs}
    \cup {Selector(NoID, EmailW, Empty, 0, FALSE, FALSE),
          Selector(NoID, Empty, <<"p">>, 0, FALSE, FALSE),
          Selector(NoID, Empty, Empty, 0, TRUE, FALSE),
          Selector(NoID, Empty, Empty, 0, FALSE, FALSE),
          Selector(NoID, Empty, Empty, -1, FALSE, FALSE),
          Selector(1, EmailW, Empty, 0, FALSE, FALSE),
          Selector(NoID, Empty, <<"p">>, 1, FALSE, FALSE),
          Selector(NoID, EmailW, Empty, 0, TRUE, FALSE),
          Selector(NoID, Empty, Empty, 1, TRUE, FALSE),
          Selector(1, Empty, Empty, 0, FALSE, TRUE)}
    \cup {Selector(NoID, Empty, Empty, i, FALSE, FALSE) : i \in 1..(MaxAccounts + 1)}

\* the number of selectors determineTargetAccount counts
inputCount(o) ==
    (IF o.accountID # NoID THEN 1 ELSE 0) + (IF o.email # Empty THEN 1 ELSE 0)
    + (IF o.alias # Empty THEN 1 ELSE 0) + (IF o.index > 0 THEN 1 ELSE 0)

\* Execute is called with some input; a cancelled context returns at once
SwitchStart(p) ==
    \E o \in SwitchInputs :
        /\ Len(history.entries) < MaxHistory + (IF o.previous THEN 1 ELSE 0)
        /\ Begin(p, o, IF o.cancelled THEN "sw_cancelled" ELSE "sw_current")

\* ctx.Err() # nil
SwitchCancelled(p) ==
    /\ pc[p] = "sw_cancelled"
    /\ UNCHANGED stores
    /\ ReturnNow(p, Fail("Cancelled"))

\* config.GetCurrentAccount
SwitchCurrent(p) ==
    /\ pc[p] = "sw_current"
    /\ UNCHANGED stores
    /\ \E ok \in BOOLEAN :
       IF ok
       THEN Goto(p, "sw_target", Call("GetCurrentAccount", TRUE),
                 [loc[p] EXCEPT !.cur = currentAccount])
       ELSE Return(p, Call("GetCurrentAccount", FALSE), Fail("GetCurrentFailed"))

\* mutant of Resolved: the current account is switched to like any other
Resolved_NoCheck(p, c, target) ==
    Goto(p, "sw_retrieve", c, [loc[p] EXCEPT !.account = target])

\* Execute from the resolved target to the credentials check: the no-op test
Resolved(p, c, target) ==
    IF loc[p].cur # NoAccount /\ loc[p].cur.id = target.id
    THEN ReturnWith(p, c, [Success EXCEPT !.From = accountToInfo(loc[p].cur),
                                          !.To = accountToInfo(loc[p].cur)],
                    [loc[p] EXCEPT !.account = target])
    ELSE Goto(p, "sw_retrieve", c, [loc[p] EXCEPT !.account = target])

\* a lookup of determineTargetAccount returned: not found / failed, or found
Looked(p, name, ok, target) ==
    IF ok /\ target # NoAccount
    THEN Resolved(p, Call(name, TRUE), target)
    ELSE Return(p, Call(name, FALSE), Fail("AccountNotFound"))

\* mutant of AtIndex: the position is not used
AtIndex_First(accts, index) == accts[1]

\* findByIndex: accounts[index-1], the position being 1-based
AtIndex(accts, index) == accts[index]

\* determineTargetAccount: the validation and the first port call
SwitchTarget(p) ==
    /\ pc[p] = "sw_target"
    /\ UNCHANGED stores
    /\ LET o == op[p] IN
       IF o.previous
       THEN IF o.accountID # NoID \/ o.email # Empty \/ o.alias # Empty \/ o.index > 0
            THEN ReturnNow(p, Fail("PreviousConflict"))
            ELSE \E ok \in BOOLEAN :
                 IF ~ok THEN Return(p, Call("LoadHistory", FALSE), Fail("HistoryLoadFailed"))
                 ELSE IF Len(history.entries) = 0
                 THEN Return(p, Call("LoadHistory", TRUE), Fail("NoHistory"))
                 ELSE Goto(p, "sw_previous", Call("LoadHistory", TRUE),
                           [loc[p] EXCEPT !.email = GetLastSwitch(history).from])
       ELSE IF inputCount(o) = 0 THEN ReturnNow(p, Fail("NoSelector"))
       ELSE IF inputCount(o) > 1 THEN ReturnNow(p, Fail("AmbiguousSelector"))
       ELSE \E ok \in BOOLEAN :
            IF o.accountID # NoID
            THEN Looked(p, "FindByID", ok, FindByID(accounts, o.accountID))
            ELSE IF o.email # Empty
            THEN Looked(p, "FindByEmail", ok, FindByEmail(accounts, o.email))
            ELSE IF o.alias # Empty
            THEN Looked(p, "FindByAlias", ok, FindByAlias(accounts, o.alias))
            ELSE \* findByIndex
                 IF ~ok THEN Return(p, Call("List", FALSE), Fail("ListFailed"))
                 ELSE IF o.index > Len(accounts)
                 THEN Return(p, Call("List", TRUE), Fail("IndexOutOfRange"))
                 ELSE Resolved(p, Call("List", TRUE), AtIndex(accounts, o.index))

\* getPreviousAccount: accounts.FindByEmail(lastSwitch.From())
SwitchPrevious(p) ==
    /\ pc[p] = "sw_previous"
    /\ UNCHANGED stores
    /\ \E ok \in BOOLEAN :
           Looked(p, "FindByEmail", ok, FindByEmail(accounts, loc[p].email))

\* mutant of SwitchRetrieve: the switch goes on without the credentials
SwitchRetrieve_Unchecked(p) ==
    /\ pc[p] = "sw_retrieve"
    /\ UNCHANGED stores
    /\ \E ok \in BOOLEAN :
           Goto(p, "sw_set",
                Call("Retrieve", ok /\ credentials[loc[p].account.id] # NoCreds), loc[p])

\* credentials.Retrieve for the target
SwitchRetrieve(p) ==
    /\ pc[p] = "sw_retrieve"
    /\ UNCHANGED stores
    /\ \E ok \in BOOLEAN :
       IF ok /\ credentials[loc[p].account.id] # NoCreds
       THEN Goto(p, "sw_set", Call("Retrieve", TRUE), loc[p])
       ELSE Return(p, Call("Retrieve", FALSE), Fail("CredentialsNotFound"))

\* mutant of SwitchResult: From and To are exchanged
SwitchResult_Swapped(p) ==
    [Success EXCEPT !.From = accountToInfo(loc[p].account),
                    !.To = IF loc[p].cur # NoAccount
                           THEN accountToInfo(loc[p].cur) ELSE NoInfo]

\* the result of a switch that was applied
SwitchResult(p) ==
    [Success EXCEPT !.To = accountToInfo(loc[p].account),
                    !.From = IF loc[p].cur # NoAccount
                             THEN accountToInfo(loc[p].cur) ELSE NoInfo]

\* mutant of SwitchSet: the history is written although the config write failed
SwitchSet_HistoryAnyway(p) ==
    /\ pc[p] = "sw_set"
    /\ UNCHANGED <<accounts, credentials, history>>
    /\ \E ok \in BOOLEAN :
       /\ currentAccount' = IF ok THEN loc[p].account ELSE currentAccount
       /\ IF loc[p].cur # NoAccount
          THEN Goto(p, "sw_hload", Call("SetCurrentAccount", ok), loc[p])
          ELSE IF ok THEN Return(p, Call("SetCurrentAccount", TRUE), SwitchResult(p))
          ELSE Return(p, Call("SetCurrentAccount", FALSE), Fail("ConfigUpdateFailed"))

\* config.SetCurrentAccount(target); without a previous account Execute returns
SwitchSet(p) ==
    /\ pc[p] = "sw_set"
    /\ UNCHANGED <<accounts, credentials, history>>
    /\ \E ok \in BOOLEAN :
       IF ~ok
       THEN /\ UNCHANGED currentAccount
            /\ Return(p, Call("SetCurrentAccount", FALSE), Fail("ConfigUpdateFailed"))
       ELSE /\ currentAccount' = loc[p].account
            /\ IF loc[p].cur # NoAccount
               THEN Goto(p, "sw_hload", Call("SetCurrentAccount", TRUE), loc[p])
               ELSE Return(p, Call("SetCurrentAccount", TRUE), SwitchResult(p))

\* saveToHistory up to AddEntry: a loaded ledger is the repository's own
\* object, so AddEntry on it changes the repository's ledger at once; a load
\* failure gives a fresh ledger; an entry that cannot be built ends the step
SwitchHistoryLoad(p) ==
    /\ pc[p] = "sw_hload"
    /\ UNCHANGED <<accounts, credentials, currentAccount>>
    /\ \E ok \in BOOLEAN :
       LET from == loc[p].cur.email
           to == loc[p].account.email
       IN  IF NewSwitchEntryErr(from, to) # ""
           THEN /\ UNCHANGED history
                /\ Return(p, Call("LoadHistory", ok), SwitchResult(p))
           ELSE IF ok
           THEN /\ history' = AddEntry(history, NewSwitchEntry(from, to))
                /\ Goto(p, "sw_hsave", Call("LoadHistory", TRUE),
                        [loc[p] EXCEPT !.shared = TRUE])
           ELSE /\ UNCHANGED history
                /\ Goto(p, "sw_hsave", Call("LoadHistory", FALSE),
                        [loc[p] EXCEPT !.shared = FALSE,
                                       !.hist = AddEntry(NewHistory(FallbackMaxEntries),
                                                         NewSwitchEntry(from, to))])

\* mutant of SwitchHistorySave: the error of SaveHistory is returned
SwitchHistorySave_Fatal(p) ==
    /\ pc[p] = "sw_hsave"
    /\ UNCHANGED <<accounts, credentials, currentAccount>>
    /\ \E ok \in BOOLEAN :
       /\ history' = IF ok /\ ~loc[p].shared THEN loc[p].hist ELSE history
       /\ Return(p, Call("SaveHistory", ok),
                 IF ok THEN SwitchResult(p) ELSE Fail("HistorySaveFailed"))

\* history.SaveHistory, its error dropped
SwitchHistorySave(p) ==
    /\ pc[p] = "sw_hsave"
    /\ UNCHANGED <<accounts, credentials, currentAccount>>
    /\ \E ok \in BOOLEAN :
       /\ history' = IF ok /\ ~loc[p].shared THEN loc[p].hist ELSE history
       /\ Return(p, Call("SaveHistory", ok), SwitchResult(p))

\* --------------------------------------------------- RemoveAccountService
\* Execute is called with an account ID; validateInput
RemoveInputs ==
    {[NoOp EXCEPT !.name = "remove", !.accountID = id] : id \in IDs \cup {NoID}}
    \cup {[NoOp EXCEPT !.name = "remove", !.accountID = 1, !.cancelled = TRUE]}

RemoveStart(p) ==
    \E o \in RemoveInputs : Begin(p, o, "rm_validate")

\* mutant of RemoveValidate: the context is not looked at
RemoveValidate_Unchecked(p) ==
    /\ pc[p] = "rm_validate"
    /\ UNCHANGED stores
    /\ IF op[p].accountID = NoID THEN ReturnNow(p, Fail("MissingAccountID"))
       ELSE GotoNow(p, "rm_find", loc[p])

\* validateInput: the empty ID, then ctx.Err()
RemoveValidate(p) ==
    /\ pc[p] = "rm_validate"
    /\ UNCHANGED stores
    /\ IF op[p].accountID = NoID THEN ReturnNow(p, Fail("MissingAccountID"))
       ELSE IF op[p].cancelled THEN ReturnNow(p, Fail("Cancelled"))
       ELSE GotoNow(p, "rm_find", loc[p])

\* accounts.FindByID
RemoveFind(p) ==
    /\ pc[p] = "rm_find"
    /\ UNCHANGED stores
    /\ \E ok \in BOOLEAN :
       IF ok /\ FindByID(accounts, op[p].accountID) # NoAccount
       THEN Goto(p, "rm_current", Call("FindByID", TRUE),
                 [loc[p] EXCEPT !.account = FindByID(accounts, op[p].accountID)])
       ELSE Return(p, Call("FindByID", FALSE), Fail("NotFound"))

\* getRemovalMetadata: config.GetCurrentAccount, its error dropped
RemoveCurrent(p) ==
    /\ pc[p] = "rm_current"
    /\ UNCHANGED stores
    /\ \E ok \in BOOLEAN :
       LET cur == IF ok THEN currentAccount ELSE NoAccount
       IN  Goto(p, "rm_list", Call("GetCurrentAccount", ok),
                [loc[p] EXCEPT !.cur = cur,
                               !.isCurrent = cur # NoAccount /\ cur.id = loc[p].account.id])

\* getRemovalMetadata: accounts.List
RemoveList(p) ==
    /\ pc[p] = "rm_list"
    /\ UNCHANGED stores
    /\ \E ok \in BOOLEAN :
       IF ok
       THEN Goto(p, "rm_backup", Call("List", TRUE),
                 [loc[p] EXCEPT !.isLast = Len(accounts) = 1])
       ELSE Return(p, Call("List", FALSE), Fail("ListFailed"))

\* getRemovalMetadata: credentials.Retrieve for the backup, its error dropped
RemoveBackup(p) ==
    /\ pc[p] = "rm_backup"
    /\ UNCHANGED stores
    /\ \E ok \in BOOLEAN :
       LET got == ok /\ credentials[loc[p].account.id] # NoCreds
       IN  Goto(p, "rm_delcreds", Call("Retrieve", got),
                [loc[p] EXCEPT !.backup = IF got THEN credentials[loc[p].account.id]
                                          ELSE NoCreds])

\* mutant of RemoveDeleteCredentials: a failed delete does not stop the removal
RemoveDeleteCredentials_Continue(p) ==
    /\ pc[p] = "rm_delcreds"
    /\ UNCHANGED <<accounts, currentAccount, history>>
    /\ \E ok \in BOOLEAN :
       LET deleted == ok /\ credentials[loc[p].account.id] # NoCreds
       IN  /\ credentials' = IF deleted
                             THEN [credentials EXCEPT ![loc[p].account.id] = NoCreds]
                             ELSE credentials
           /\ Goto(p, "rm_delaccount", Call("Delete", deleted), loc[p])

\* performRemoval: credentials.Delete
RemoveDeleteCredentials(p) ==
    /\ pc[p] = "rm_delcreds"
    /\ UNCHANGED <<accounts, currentAccount, history>>
    /\ \E ok \in BOOLEAN :
       IF ok /\ credentials[loc[p].account.id] # NoCreds
       THEN /\ credentials' = [credentials EXCEPT ![loc[p].account.id] = NoCreds]
            /\ Goto(p, "rm_delaccount", Call("Delete", TRUE), loc[p])
       ELSE /\ UNCHANGED credentials
            /\ Return(p, Call("Delete", FALSE), Fail("CredentialDeleteFailed"))

\* the result of a removal that went through
RemoveResult(p) ==
    [Success EXCEPT !.Removed = accountToInfo(loc[p].account),
                    !.WasCurrentAccount = loc[p].isCurrent,
                    !.WasLastAccount = loc[p].isLast]

\* performRemoval: accounts.Delete; on failure the credentials are rolled back
RemoveDeleteAccount(p) ==
    /\ pc[p] = "rm_delaccount"
    /\ UNCHANGED <<credentials, currentAccount, history>>
    /\ \E ok \in BOOLEAN :
       IF ok /\ FindByID(accounts, loc[p].account.id) # NoAccount
       THEN /\ accounts' = RepoDelete(accounts, loc[p].account.id)
            /\ IF loc[p].isCurrent
               THEN Goto(p, "rm_clear", Call("AccountDelete", TRUE), loc[p])
               ELSE Return(p, Call("AccountDelete", TRUE), RemoveResult(p))
       ELSE /\ UNCHANGED accounts
            /\ Goto(p, "rm_rollback_creds", Call("AccountDelete", FALSE),
                    [loc[p] EXCEPT !.err = "AccountDeleteFailed"])

\* performRemoval: config.SetCurrentAccount(nil)
RemoveClear(p) ==
    /\ pc[p] = "rm_clear"
    /\ UNCHANGED <<accounts, credentials, history>>
    /\ \E ok \in BOOLEAN :
       IF ok
       THEN /\ currentAccount' = NoAccount
            /\ Goto(p, "rm_hload", Call("SetCurrentAccount", TRUE), loc[p])
       ELSE /\ UNCHANGED currentAccount
            /\ Goto(p, "rm_rollback_account", Call("SetCurrentAccount", FALSE),
                    [loc[p] EXCEPT !.err = "ConfigClearFailed"])

\* mutant of RemoveRollbackAccount: only the credentials are rolled back
RemoveRollbackAccount_None(p) ==
    /\ pc[p] = "rm_rollback_account"
    /\ UNCHANGED stores
    /\ GotoNow(p, "rm_rollback_creds", loc[p])

\* rollbackFull: accounts.Save(account), its error dropped
RemoveRollbackAccount(p) ==
    /\ pc[p] = "rm_rollback_account"
    /\ UNCHANGED <<credentials, currentAccount, history>>
    /\ \E ok \in BOOLEAN :
       /\ accounts' = IF ok THEN RepoSave(accounts, loc[p].account) ELSE accounts
       /\ Goto(p, "rm_rollback_creds", Call("Save", ok), loc[p])

\* mutant of RemoveRollbackCredentials: the backup is never stored back
RemoveRollbackCredentials_None(p) ==
    /\ pc[p] = "rm_rollback_creds"
    /\ UNCHANGED stores
    /\ ReturnNow(p, Fail(loc[p].err))

\* rollbackCredentials: credentials.Store(backup) when there is a backup, its
\* error dropped; performRemoval then returns the error of the failed step
RemoveRollbackCredentials(p) ==
    /\ pc[p] = "rm_rollback_creds"
    /\ UNCHANGED <<accounts, currentAccount, history>>
    /\ IF loc[p].backup = NoCreds
       THEN /\ UNCHANGED credentials
            /\ ReturnNow(p, Fail(loc[p].err))
       ELSE \E ok \in BOOLEAN :
            /\ credentials' = IF ok
                              THEN [credentials EXCEPT ![loc[p].account.id] = loc[p].backup]
                              ELSE credentials
            /\ Return(p, Call("Store", ok), Fail(loc[p].err))

\* mutant of RemoveHistoryLoad: a failed load fails the removal
RemoveHistoryLoad_Fatal(p) ==
    /\ pc[p] = "rm_hload"
    /\ UNCHANGED stores
    /\ \E ok \in BOOLEAN :
       IF ok THEN Goto(p, "rm_hsave", Call("LoadHistory", TRUE), loc[p])
       ELSE Return(p, Call("LoadHistory", FALSE), Fail("HistoryLoadFailed"))

\* updateHistory: history.LoadHistory; a failure ends the update
RemoveHistoryLoad(p) ==
    /\ pc[p] = "rm_hload"
    /\ UNCHANGED stores
    /\ \E ok \in BOOLEAN :
       IF ok THEN Goto(p, "rm_hsave", Call("LoadHistory", TRUE), loc[p])
       ELSE Return(p, Call("LoadHistory", FALSE), RemoveResult(p))

\* updateHistory: history.SaveHistory of the ledger just loaded, error dropped
RemoveHistorySave(p) ==
    /\ pc[p] = "rm_hsave"
    /\ UNCHANGED stores
    /\ \E ok \in BOOLEAN : Return(p, Call("SaveHistory", ok), RemoveResult(p))

\* ---------------------------------------------------- ListAccountsService
ListInputs == {[NoOp EXCEPT !.name = "list", !.cancelled = c] : c \in BOOLEAN}

\* Execute is called; a cancelled context returns at once
ListStart(p) ==
    \E o \in ListInputs : Begin(p, o, IF o.cancelled THEN "ls_cancelled" ELSE "ls_list")

\* ctx.Err() # nil
ListCancelled(p) ==
    /\ pc[p] = "ls_cancelled"
    /\ UNCHANGED stores
    /\ ReturnNow(p, Fail("Cancelled"))

\* accounts.List and the conversion of every record to its AccountInfo
ListAll(p) ==
    /\ pc[p] = "ls_list"
    /\ UNCHANGED stores
    /\ \E ok \in BOOLEAN :
       IF ok
       THEN Return(p, Call("List", TRUE),
                   [Success EXCEPT !.Listing = [k \in 1..Len(accounts) |->
                                                   accountToInfo(accounts[k])]])
       ELSE Return(p, Call("List", FALSE), Fail("ListFailed"))

\* ---------------------------------------------------------- specification
\* the steps of Add other than its clean-up
AddPrimary(p) ==
    \/ AddStart(p) \/ AddDetails(p) \/ AddCheck(p) \/ AddStore(p) \/ AddSave(p)

\* the steps of Switch
SwitchSteps(p) ==
    \/ SwitchStart(p) \/ SwitchCancelled(p) \/ SwitchCurrent(p) \/ SwitchTarget(p)
    \/ SwitchPrevious(p) \/ SwitchRetrieve(p) \/ SwitchSet(p)
    \/ SwitchHistoryLoad(p) \/ SwitchHistorySave(p)

\* the steps of Remove other than its rollbacks
RemovePrimary(p) ==
    \/ RemoveStart(p) \/ RemoveValidate(p) \/ RemoveFind(p) \/ RemoveCurrent(p)
    \/ RemoveList(p) \/ RemoveBackup(p) \/ RemoveDeleteCredentials(p)
    \/ RemoveDeleteAccount(p) \/ RemoveClear(p)
    \/ RemoveHistoryLoad(p) \/ RemoveHistorySave(p)

\* the steps of ListAccounts
ListSteps(p) == ListStart(p) \/ ListCancelled(p) \/ ListAll(p)

\* the steps of the orchestrators and of the listing, compensations apart
Primary(p) ==
    \/ AddPrimary(p) \/ SwitchSteps(p) \/ RemovePrimary(p) \/ ListSteps(p)
    \/ Finish(p)

\* the compensating steps: the clean-up of Add and the rollbacks of Remove
Compensate(p) ==
    \/ AddCleanup(p) \/ RemoveRollbackAccount(p) \/ RemoveRollbackCredentials(p)

Step(p) == Primary(p) \/ Compensate(p)

\* calls are made one after the other by one caller
Next == Step(Main)

Spec == Init /\ [][Next]_vars

\* time passes between two calls
Tick ==
    /\ \A p \in Procs : pc[p] = "idle"
    /\ now < MaxClock
    /\ now' = now + 1
    /\ UNCHANGED <<stores, pc, op, loc, calls, pre, result, objects>>

\* the runs of Add and Switch in which the clock is seen to advance between calls
NextUsed ==
    \/ AddPrimary(Main) \/ AddCleanup(Main) \/ SwitchSteps(Main) \/ Finish(Main)
    \/ Tick

SpecUsed == Init /\ [][NextUsed]_vars

\* Execute is called with an explicit email, and with or without an alias
AliasInputs ==
    {AddInput(EmailP, Empty, <<"d1">>, FALSE),
     AddInput(EmailW, AliasP, <<"d1">>, FALSE),
     AddInput(EmailDotted, AliasW, <<"d1">>, FALSE)}

AddStartAliased(p) ==
    /\ Len(accounts) < MaxAccounts
    /\ \E o \in AliasInputs : Begin(p, o, "add_details")

\* the runs of Add with explicit emails and aliases, and of Switch
NextAliased ==
    \/ AddStartAliased(Main) \/ AddDetails(Main) \/ AddCheck(Main) \/ AddStore(Main)
    \/ AddSave(Main) \/ AddCleanup(Main) \/ SwitchSteps(Main) \/ Finish(Main)

SpecAliased == Init /\ [][NextAliased]_vars

\* the calls that compensate an earlier step: the clean-up of Add after a failed
\* Save, and the rollbacks of Remove (the restoring Save and Store)
Compensating(opName, callName) ==
    \/ opName = "add" /\ callName = "Delete"
    \/ opName = "remove" /\ callName \in {"Save", "Store"}

\* this step is a compensating call that fails
CompensationFailed ==
    \E p \in Procs :
        /\ Len(calls'[p]) = Len(calls[p]) + 1
        /\ Compensating(op[p].name, calls'[p][Len(calls'[p])].name)
        /\ ~calls'[p][Len(calls'[p])].ok

\* the runs in which store calls may fail but every compensating call succeeds
NextClean ==
    \/ Primary(Main)
    \/ Compensate(Main) /\ ~CompensationFailed

SpecClean == Init /\ [][NextClean]_vars

\* ------------------------------------------- two calls, one after the other
\* the caller of the second call
Second == "c2"

\* Execute is called with the previous flag alone, once the call before it has
\* returned
SwitchStartPrevious(p) ==
    /\ pc[Main] = "done"
    /\ Len(history.entries) <= MaxHistory
    /\ Begin(p, Selector(NoID, Empty, Empty, 0, TRUE, FALSE), "sw_current")

\* the Switch to the previous account that follows a call
SecondCall ==
    \/ SwitchStartPrevious(Second) \/ SwitchCurrent(Second) \/ SwitchTarget(Second)
    \/ SwitchPrevious(Second) \/ SwitchRetrieve(Second) \/ SwitchSet(Second)
    \/ SwitchHistoryLoad(Second) \/ SwitchHistorySave(Second)

\* both callers have their results and are ready for the next two calls
FinishBoth ==
    /\ \A p \in Procs : pc[p] = "done"
    /\ pc' = [p \in Procs |-> "idle"]
    /\ op' = [p \in Procs |-> NoOp]
    /\ loc' = [p \in Procs |-> NoLoc]
    /\ calls' = [p \in Procs |-> <<>>]
    /\ pre' = [p \in Procs |-> NoSnapshot]
    /\ result' = [p \in Procs |-> NoResult]
    /\ UNCHANGED <<stores, now, objects>>

\* calls in sequence, never two at a time: a call of Add or Switch, then a
\* Switch to the previous account, and so on
NextPrevious ==
    \/ AddPrimary(Main) \/ AddCleanup(Main) \/ SwitchSteps(Main)
    \/ SecondCall \/ FinishBoth

SpecPrevious == Init /\ [][NextPrevious]_vars

\* ------------------------------------------------- two calls at the same time
\* the services hold no lock: the port calls of two running calls interleave in
\* any order, each port call in one step
NextConcurrent ==
    \/ \E p \in Procs :
           \/ AddStartAliased(p) \/ AddDetails(p) \/ AddCheck(p) \/ AddStore(p)
           \/ AddSave(p) \/ AddCleanup(p)
    \/ FinishBoth

SpecConcurrent == Init /\ [][NextConcurrent]_vars

\* the account a successful Add(email, credentials) stores under this ID
StoredAccount(id, email) ==
    NewAccount(id, email, generateAlias(Empty, email), ExplicitUUID(email), 0)

\* two accounts have been added; one of them may have been switched to, and
\* then the other, which the ledger records
InitStored ==
    /\ NoObjects
    /\ accounts = <<StoredAccount(1, EmailP), StoredAccount(2, EmailW)>>
    /\ credentials = [i \in IDs |-> IF i <= 2 THEN <<"d1">> ELSE NoCreds]
    /\ \/ /\ currentAccount \in {NoAccount, StoredAccount(1, EmailP),
                                 StoredAccount(2, EmailW)}
          /\ history = NewHistory(MockMaxEntries)
       \/ /\ currentAccount = StoredAccount(2, EmailW)
          /\ history = AddEntry(NewHistory(MockMaxEntries),
                                NewSwitchEntry(EmailP, EmailW))
    /\ pc = [p \in Procs |-> "idle"]
    /\ op = [p \in Procs |-> NoOp]
    /\ loc = [p \in Procs |-> NoLoc]
    /\ calls = [p \in Procs |-> <<>>]
    /\ pre = [p \in Procs |-> NoSnapshot]
    /\ result = [p \in Procs |-> NoResult]
    /\ now = 0

\* one caller makes a call of Switch while the other makes a call of Remove
NextSwitchRemove ==
    \/ SwitchSteps(Main) \/ RemovePrimary(Second)
    \/ RemoveRollbackAccount(Second) \/ RemoveRollbackCredentials(Second)

SpecSwitchRemove == InitStored /\ [][NextSwitchRemove]_vars

\* ------------------------------------------------- a History on its own
\* no use case is running and the stores are empty
NoServices ==
    /\ accounts = <<>>
    /\ credentials = [i \in IDs |-> NoCreds]
    /\ currentAccount = NoAccount
    /\ history = NewHistory(MockMaxEntries)
    /\ pc = [p \in Procs |-> "idle"]
    /\ op = [p \in Procs |-> NoOp]
    /\ loc = [p \in Procs |-> NoLoc]
    /\ calls = [p \in Procs |-> <<>>]
    /\ pre = [p \in Procs |-> NoSnapshot]
    /\ result = [p \in Procs |-> NoResult]
    /\ now = 0
services == <<stores, pc, op, loc, calls, pre, result, now>>

\* nil *SwitchEntry
NoEntry == [from |-> Empty, to |-> Empty]
\* the entries given to AddEntry
SampleEntries ==
    {NewSwitchEntry(EmailP, EmailW), NewSwitchEntry(EmailW, EmailP),
     NewSwitchEntry(EmailP, EmailDotted), NoEntry}

\* NewHistory(maxEntries) with some argument, positive or not
InitHistory ==
    /\ NoServices
    /\ NoCred
    /\ NoFileCalls
    /\ NoConfigCalls
    /\ maxArg \in -1..MaxTrackerArg
    /\ tracker = NewHistory(maxArg)
    /\ inserted = <<>>
    /\ listed = <<>>

\* h.AddEntry(entry); a nil entry is dropped
TrackerAddEntry ==
    /\ Len(inserted) < MaxInserted
    /\ \E entry \in SampleEntries :
       IF entry = NoEntry
       THEN UNCHANGED <<tracker, inserted>>
       ELSE /\ tracker' = AddEntry(tracker, entry)
            /\ inserted' = <<entry>> \o inserted
    /\ UNCHANGED <<services, configVars, maxArg, listed, credVars, fileVars>>

\* h.Clear()
TrackerClear ==
    /\ tracker' = Clear(tracker)
    /\ inserted' = <<>>
    /\ UNCHANGED <<services, configVars, maxArg, listed, credVars, fileVars>>

\* h.Entries()
TrackerEntries ==
    /\ listed' = Entries(tracker)
    /\ UNCHANGED <<services, configVars, tracker, inserted, maxArg, credVars, fileVars>>

NextHistory == TrackerAddEntry \/ TrackerClear \/ TrackerEntries

SpecHistory == InitHistory /\ [][NextHistory]_vars

\* ---------------------------------------------- Credentials on their own
\* the payloads sealed: every non-empty byte string up to MaxPayload bytes
\* over two byte values
PayloadBytes == {0, 200}
Payloads ==
    UNION {[1..n -> PayloadBytes] : n \in 1..MaxPayload}
\* the nonces rand.Reader gives
Nonces == {[k \in 1..NonceSize |-> 0], [k \in 1..NonceSize |-> (k * 20) % 256]}
\* by how much a byte on disk is changed
Deltas == {1, 128, 255}

InitCredentials ==
    /\ NoServices
    /\ NoTracker
    /\ NoFileCalls
    /\ NoConfigCalls
    /\ NoCred

\* NewCredentials(accountID, data), when there are none; reading the nonce
\* may fail
CredNew ==
    /\ cred = NoCredentials
    /\ \E accountID \in IDs \cup {NoID}, data \in Payloads \cup {<<>>},
          nonce \in Nonces, ok \in BOOLEAN :
       IF NewCredentialsErr(accountID, data) # "" \/ ~ok
       THEN cred' = NoCredentials /\ credOf' = NoOrigin
       ELSE /\ cred' = NewCredentials(accountID, data, nonce)
            /\ credOf' = [NoOrigin EXCEPT !.id = accountID, !.data = data,
                                          !.genuine = TRUE]
    /\ doc' = NoDocument
    /\ docOf' = NoOrigin
    /\ opened' = NotOpened
    /\ UNCHANGED <<services, configVars, fileVars, trackerVars>>

\* c.UpdateData(newData), once for each Credentials before they are written
\* to disk; an empty payload and a failed nonce change nothing
CredUpdateData ==
    /\ cred # NoCredentials
    /\ ~credOf.updated
    /\ doc = NoDocument
    /\ \E newData \in Payloads \cup {<<>>}, nonce \in Nonces, ok \in BOOLEAN :
       IF Len(newData) = 0 \/ ~ok
       THEN UNCHANGED <<cred, credOf, opened>>
       ELSE /\ cred' = UpdateData(cred, newData, nonce)
            /\ credOf' = [credOf EXCEPT !.data = newData, !.updated = TRUE]
            /\ opened' = NotOpened
    /\ UNCHANGED <<services, configVars, fileVars, trackerVars, doc, docOf>>

\* c.Serialize(), written to disk; the Credentials go out of use
CredSerialize ==
    /\ cred # NoCredentials
    /\ doc' = Serialize(cred)
    /\ docOf' = credOf
    /\ cred' = NoCredentials
    /\ credOf' = NoOrigin
    /\ opened' = NotOpened
    /\ UNCHANGED <<services, configVars, fileVars, trackerVars>>

\* DeserializeCredentials of what is on disk
CredDeserialize ==
    /\ IF DeserializeCredentialsErr(doc) # ""
       THEN cred' = NoCredentials /\ credOf' = NoOrigin
       ELSE /\ cred' = DeserializeCredentials(doc)
            /\ credOf' = [docOf EXCEPT !.restored = TRUE]
    /\ opened' = NotOpened
    /\ UNCHANGED <<services, configVars, fileVars, trackerVars, doc, docOf>>

\* the file on disk is changed behind the program: one byte of the payload,
\* its length cut below one nonce, or the account ID it names
DocTamper ==
    /\ docOf.genuine
    /\ LET bytes == DecodeString(doc.encryptedData)
       IN  \/ \E i \in 1..Len(bytes), d \in Deltas :
                 doc' = [doc EXCEPT !.encryptedData =
                            EncodeToString([bytes EXCEPT ![i] = (@ + d) % 256])]
           \/ \E k \in 1..(NonceSize - 1) :
                 doc' = [doc EXCEPT !.encryptedData = EncodeToString(SubSeq(bytes, 1, k))]
           \/ \E id \in IDs \ {doc.accountId} :
                 doc' = [doc EXCEPT !.accountId = id]
    /\ docOf' = [docOf EXCEPT !.genuine = FALSE]
    /\ UNCHANGED <<services, configVars, fileVars, trackerVars, cred, credOf, opened>>

\* c.Decrypt()
CredDecrypt ==
    /\ cred # NoCredentials
    /\ opened' = Decrypt(cred)
    /\ UNCHANGED <<services, configVars, fileVars, trackerVars, cred, credOf, doc, docOf>>

NextCredentials ==
    \/ CredNew \/ CredUpdateData \/ CredSerialize \/ CredDeserialize
    \/ DocTamper \/ CredDecrypt

SpecCredentials == InitCredentials /\ [][NextCredentials]_vars

\* ------------------------- FileAccountRepository under concurrent callers
\* mutant of CanLock: Lock does not wait
CanLock_Always(m) == TRUE

\* mu.Lock() returns: no writer and no reader holds the lock
CanLock(m) == m.writer = "none" /\ m.readers = {}

\* mu.RLock() returns: no writer holds the lock
CanRLock(m) == m.writer = "none"

\* the deferred mu.Unlock() or mu.RUnlock() of caller p
Released(m, p) ==
    [writer |-> IF m.writer = p THEN "none" ELSE m.writer, readers |-> m.readers \ {p}]

\* the account saved under an ID
FileAccount(id) ==
    NewAccount(id, IF id = 1 THEN EmailP ELSE IF id = 2 THEN EmailW ELSE EmailDotted,
               Empty, <<"uuid-123">>, 0)

\* the repository calls made: Save and Delete of every ID, and List
FileInputs ==
    {[NoOp EXCEPT !.name = n, !.accountID = id] : n \in {"file.Save", "file.Delete"},
                                                  id \in IDs}
    \cup {[NoOp EXCEPT !.name = "file.List"]}

\* a goroutine calls Save, Delete or List on the one repository instance
FileStart(p) ==
    \E o \in FileInputs : Begin(p, o, "file_lock")

\* r.mu.Lock() in Save and Delete, r.mu.RLock() in List
FileLock(p) ==
    /\ pc[p] = "file_lock"
    /\ IF op[p].name = "file.List"
       THEN CanRLock(mu) /\ mu' = [mu EXCEPT !.readers = @ \cup {p}]
       ELSE CanLock(mu) /\ mu' = [mu EXCEPT !.writer = p]
    /\ pc' = [pc EXCEPT ![p] = "file_load"]
    /\ UNCHANGED <<configVars, stores, op, loc, calls, pre, result, now, trackerVars,
                   credVars, loaded, committed>>

\* the call of p returns r and its deferred unlock runs
FileReturn(p, r) ==
    /\ pc' = [pc EXCEPT ![p] = "done"]
    /\ result' = [result EXCEPT ![p] = r]
    /\ mu' = Released(mu, p)
    /\ loaded' = [loaded EXCEPT ![p] = <<>>]
    /\ UNCHANGED <<credentials, currentAccount, history, op, loc, calls, pre, now,
                   trackerVars, credVars, configVars>>

\* loadAccounts; List converts and returns what it read
FileLoad(p) ==
    /\ pc[p] = "file_load"
    /\ \E ok \in BOOLEAN :
       IF ~ok
       THEN FileReturn(p, Fail("LoadFailed")) /\ UNCHANGED <<accounts, committed>>
       ELSE IF op[p].name = "file.List"
       THEN /\ FileReturn(p, [Success EXCEPT !.Listing =
                                 [k \in 1..Len(accounts) |-> accountToInfo(accounts[k])]])
            /\ UNCHANGED <<accounts, committed>>
       ELSE /\ pc' = [pc EXCEPT ![p] = "file_write"]
            /\ loaded' = [loaded EXCEPT ![p] = accounts]
            /\ UNCHANGED <<configVars, stores, op, loc, calls, pre, result, now, trackerVars,
                           credVars, mu, committed>>

\* the change to what was loaded and saveAccounts; a failed write leaves the
\* file as it was
FileWrite(p) ==
    /\ pc[p] = "file_write"
    /\ LET id == op[p].accountID
       IN  IF op[p].name = "file.Delete" /\ FirstIndex(loaded[p], "id", id) = 0
           THEN FileReturn(p, Fail("account not found")) /\ UNCHANGED <<accounts, committed>>
           ELSE \E ok \in BOOLEAN :
                IF ~ok
                THEN FileReturn(p, Fail("WriteFailed")) /\ UNCHANGED <<accounts, committed>>
                ELSE /\ FileReturn(p, Success)
                     /\ IF op[p].name = "file.Save"
                        THEN /\ accounts' = RepoSave(loaded[p], FileAccount(id))
                             /\ committed' = committed \cup {id}
                        ELSE /\ accounts' = RepoDelete(loaded[p], id)
                             /\ committed' = committed \ {id}

\* the steps of one goroutine
FileStep(p) ==
    FileStart(p) \/ FileLock(p) \/ FileLoad(p) \/ FileWrite(p) \/ Finish(p)

\* goroutines call the repository concurrently
NextFile == \E p \in Procs : FileStep(p)

InitFile ==
    /\ NoServices
    /\ NoObjects

SpecFile == InitFile /\ [][NextFile]_vars

\* --------------------------------------- a BasicConfigManager on its own
\* the top-level keys of .claude.json other than oauthAccount, and their values
OtherKeys == {"theme", "userID"}
RawValues == {"dark", "u-1"}

\* the key/value pairs other than oauthAccount a JSON object may hold
Rests == UNION {[ks -> RawValues] : ks \in SUBSET OtherKeys}

\* a file holding a JSON object
ObjectFile(oauth, rest) == [kind |-> "object", oauth |-> oauth, rest |-> rest]
\* a file that is not JSON, and a file holding the JSON value null
InvalidFile == [kind |-> "invalid", oauth |-> NoOAuth, rest |-> <<>>]
NullFile == [kind |-> "null", oauth |-> NoOAuth, rest |-> <<>>]

\* oauthAccount{EmailAddress, AccountUUID} as an entry of the object
OAuth(email, uuid) == [present |-> TRUE, emailAddress |-> email, accountUuid |-> uuid]

\* what the client application, or anything else, may have left in the file
FilesFound ==
    {AbsentFile, InvalidFile, NullFile}
    \cup {ObjectFile(NoOAuth, rest) : rest \in Rests}
    \cup {ObjectFile(OAuth(e, u), rest) :
              e \in {Empty, EmailP}, u \in {Empty, <<"uuid-123">>}, rest \in Rests}

\* the accounts SetCurrentAccount is called with: stored accounts, and nil
SetArgs == {NoAccount} \cup {StoredAccount(id, EmailP) : id \in IDs}
           \cup {StoredAccount(id, EmailW) : id \in IDs}

InitConfig ==
    /\ NoServices
    /\ NoTracker
    /\ NoCred
    /\ NoFileCalls
    /\ configFile \in FilesFound
    /\ last = NoConfigCall
    /\ prior = NoConfigCall

\* the call returns: it becomes the last call, the one before it the prior one
Returned(name, arg, account, err) ==
    /\ last' = [name |-> name, arg |-> arg, account |-> account, err |-> err,
                before |-> configFile]
    /\ prior' = [last EXCEPT !.before = AbsentFile]
    /\ UNCHANGED <<services, trackerVars, credVars, fileVars>>

\* GetCurrentAccount: os.Stat, os.ReadFile, json.Unmarshal, the oauthAccount
\* entry, domain.NewAccount with the ID GenerateAccountID returns
GetCurrentAccount ==
    /\ UNCHANGED configFile
    /\ \E readOk \in BOOLEAN, id \in IDs :
       LET oauth == configFile.oauth
           nothing(err) == Returned("get", NoAccount, NoAccount, err)
       IN  IF configFile.kind = "absent" THEN nothing("")
           ELSE IF ~readOk THEN nothing("failed to read config file")
           ELSE IF configFile.kind = "invalid" THEN nothing("failed to parse config")
           ELSE IF ~oauth.present THEN nothing("")
           ELSE IF oauth.emailAddress = Empty \/ oauth.accountUuid = Empty
                THEN nothing("")
           ELSE IF NewAccountErr(oauth.emailAddress, Empty, oauth.accountUuid) # ""
                THEN nothing("failed to create account from config")
           ELSE Returned("get", NoAccount,
                         NewAccount(id, oauth.emailAddress, Empty, oauth.accountUuid, now),
                         "")

\* mutant of Updated: the object written holds the oauthAccount entry alone
Updated_Alone(file, account) ==
    ObjectFile(OAuth(account.email, account.uuid), <<>>)

\* config["oauthAccount"] = oauthData, on the object read or on a new one
Updated(file, account) ==
    ObjectFile(OAuth(account.email, account.uuid), file.rest)

\* SetCurrentAccount: os.ReadFile, json.Unmarshal, account.Email() and
\* account.UUID(), the assignment to the map, os.MkdirAll, os.WriteFile (which
\* may fail before or after it has truncated the file)
SetCurrentAccount ==
    \E account \in SetArgs, readOk \in BOOLEAN,
       wrote \in {"ok", "mkdir", "open", "write"} :
       LET fails(err) == UNCHANGED configFile /\ Returned("set", account, NoAccount, err)
       IN  IF configFile.kind # "absent" /\ ~readOk
           THEN fails("failed to read existing config")
           ELSE IF configFile.kind = "invalid"
           THEN fails("failed to parse existing config")
           ELSE IF account = NoAccount
           THEN fails("panic: nil pointer dereference")
           ELSE IF configFile.kind = "null"
           THEN fails("panic: assignment to entry in nil map")
           ELSE IF wrote = "mkdir" THEN fails("failed to create config directory")
           ELSE IF wrote = "open" THEN fails("failed to write config file")
           ELSE IF wrote = "write"
           THEN /\ configFile' = InvalidFile
                /\ Returned("set", account, NoAccount, "failed to write config file")
           ELSE /\ configFile' = Updated(configFile, account)
                /\ Returned("set", account, NoAccount, "")

NextConfig == GetCurrentAccount \/ SetCurrentAccount

SpecConfig == InitConfig /\ [][NextConfig]_vars

\* ------------------------------------------------------------ properties
\* the call of p has returned and was a call of the named use case
Done(p, name) == pc[p] = "done" /\ op[p].name = name
\* the call of p made the named port call with this outcome
HasCall(p, name, ok) == \E i \in 1..Len(calls[p]) : calls[p][i] = Call(name, ok)
\* the call of p made the named port call
Made(p, name) == \E i \in 1..Len(calls[p]) : calls[p][i].name = name
\* every call of that name was made after a successful call of the other name
OnlyAfter(p, name, before) ==
    \A i \in 1..Len(calls[p]) :
        calls[p][i].name = name => \E j \in 1..(i - 1) : calls[p][j] = Call(before, TRUE)
\* the account the call of p created, resolved or removes
Acct(p) == loc[p].account
Stored(id) == FindByID(accounts, id) # NoAccount

\* an Add whose Store succeeded and whose Save failed has returned
AddSaveFailed(p) ==
    Done(p, "add") /\ HasCall(p, "Store", TRUE) /\ HasCall(p, "Save", FALSE)

\* C1 as stated: after credentials.Store succeeded and accounts.Save failed, Add
\* has deleted the credentials: once it has returned, the credential store has
\* nothing for the new ID and the account repository has no record with it.
C1_AsStated ==
    \A p \in Procs : AddSaveFailed(p) =>
        /\ Made(p, "Delete")
        /\ ~result[p].ok
        /\ credentials[Acct(p).id] = NoCreds
        /\ ~Stored(Acct(p).id)

\* C1 amended: after credentials.Store succeeded and accounts.Save failed, Add
\* calls credentials.Delete for the new ID as its last port call and returns
\* the error of Save; when that delete succeeds the credential store has
\* nothing for the ID, and the account repository is as it was before the call.
C1_CleanupAttempted ==
    \A p \in Procs : AddSaveFailed(p) =>
        /\ calls[p][Len(calls[p])].name = "Delete"
        /\ result[p] = Fail("AccountSaveFailed")
        /\ (HasCall(p, "Delete", TRUE) => credentials[Acct(p).id] = NoCreds)
        /\ accounts = pre[p].accounts

C1_Witness ==
    \E p \in Procs : AddSaveFailed(p) /\ HasCall(p, "Delete", TRUE)
                     /\ credentials[Acct(p).id] = NoCreds

\* C2: in Add, accounts.Save is called only after credentials.Store succeeded;
\* an Add that returned without a successful Store left the account listing as
\* it was; and whenever Add has saved the new record, the credentials stored
\* for its ID are there.
C2_StoreBeforeSave ==
    \A p \in Procs : op[p].name = "add" =>
        /\ OnlyAfter(p, "Save", "Store")
        /\ (pc[p] = "done" /\ ~HasCall(p, "Store", TRUE) => accounts = pre[p].accounts)
        /\ (HasCall(p, "Save", TRUE) =>
                /\ FindByID(accounts, Acct(p).id) = Acct(p)
                /\ credentials[Acct(p).id] = loc[p].data)

C2_Witness ==
    \E p \in Procs : Done(p, "add") /\ HasCall(p, "Store", FALSE)
                     /\ Len(accounts) > 0 /\ accounts = pre[p].accounts

\* a Remove whose credentials.Delete succeeded and whose accounts.Delete failed
RemoveAccountDeleteFailed(p) ==
    Done(p, "remove") /\ HasCall(p, "Delete", TRUE) /\ HasCall(p, "AccountDelete", FALSE)

\* C3 as stated: when the credentials were deleted and deleting the account
\* record failed, Remove returns an error and afterwards the account is
\* findable by ID and its credentials are retrievable again.
C3_AsStated ==
    \A p \in Procs : RemoveAccountDeleteFailed(p) =>
        /\ ~result[p].ok
        /\ Stored(Acct(p).id)
        /\ credentials[Acct(p).id] # NoCreds

\* C3 amended: when the credentials were deleted and deleting the account
\* record failed, Remove returns the account-deletion error and the account is
\* still stored unchanged; if the backup retrieve made before the deletion
\* succeeded, Remove calls credentials.Store with the backup, and if that call
\* succeeds the credentials are what they were before the call.
C3_RollbackAttempted ==
    \A p \in Procs : RemoveAccountDeleteFailed(p) =>
        /\ result[p] = Fail("AccountDeleteFailed")
        /\ FindByID(accounts, Acct(p).id) = Acct(p)
        /\ accounts = pre[p].accounts
        /\ (HasCall(p, "Retrieve", TRUE) => Made(p, "Store"))
        /\ (HasCall(p, "Store", TRUE) =>
                /\ credentials[Acct(p).id] # NoCreds
                /\ credentials = pre[p].credentials)

C3_Witness ==
    \E p \in Procs : RemoveAccountDeleteFailed(p) /\ HasCall(p, "Store", TRUE)
                     /\ credentials[Acct(p).id] # NoCreds

\* a Remove of the current account whose config clear failed after both deletes
RemoveClearFailed(p) ==
    /\ Done(p, "remove") /\ loc[p].isCurrent
    /\ HasCall(p, "Delete", TRUE) /\ HasCall(p, "AccountDelete", TRUE)
    /\ HasCall(p, "SetCurrentAccount", FALSE)

\* C4 as stated: when Remove of the current account deleted credentials and
\* record and then failed to clear the config, it returns an error and
\* afterwards account and credentials are findable and the config is unchanged.
C4_AsStated ==
    \A p \in Procs : RemoveClearFailed(p) =>
        /\ ~result[p].ok
        /\ Stored(Acct(p).id)
        /\ credentials[Acct(p).id] # NoCreds
        /\ currentAccount = pre[p].currentAccount

\* C4 amended: when Remove of the current account deleted credentials and
\* record and then failed to clear the config, it returns the config error,
\* the config's current account is unchanged, and it calls accounts.Save with
\* the account and (when the backup retrieve had succeeded) credentials.Store
\* with the backup; each restore that succeeds makes the account, respectively
\* its credentials, findable again.
C4_FullRollbackAttempted ==
    \A p \in Procs : RemoveClearFailed(p) =>
        /\ result[p] = Fail("ConfigClearFailed")
        /\ currentAccount = pre[p].currentAccount
        /\ Made(p, "Save")
        /\ (HasCall(p, "Save", TRUE) => FindByID(accounts, Acct(p).id) = Acct(p))
        /\ (HasCall(p, "Retrieve", TRUE) => Made(p, "Store"))
        /\ (HasCall(p, "Store", TRUE) =>
                credentials[Acct(p).id] = pre[p].credentials[Acct(p).id])

C4_Witness ==
    \E p \in Procs : RemoveClearFailed(p) /\ HasCall(p, "Save", TRUE)
                     /\ HasCall(p, "Store", TRUE) /\ Stored(Acct(p).id)
                     /\ credentials[Acct(p).id] # NoCreds

\* C5: Remove deletes the account record only after the credentials were
\* deleted; when deleting the credentials fails, Remove returns an error with
\* no result and account records, credentials, config and history are as they
\* were before the call.
C5_CredentialDeleteFailedTouchesNothing ==
    \A p \in Procs : op[p].name = "remove" =>
        /\ OnlyAfter(p, "AccountDelete", "Delete")
        /\ (pc[p] = "done" /\ HasCall(p, "Delete", FALSE) =>
                /\ result[p] = Fail("CredentialDeleteFailed")
                /\ accounts = pre[p].accounts
                /\ credentials = pre[p].credentials
                /\ currentAccount = pre[p].currentAccount
                /\ history = pre[p].history)

C5_Witness ==
    \E p \in Procs : Done(p, "remove") /\ HasCall(p, "Delete", FALSE)
                     /\ credentials[Acct(p).id] # NoCreds /\ loc[p].isCurrent

\* C6: when Switch cannot retrieve credentials for a target other than the
\* current account, it returns an error, config and history are as before the
\* call, and no SetCurrentAccount and no SaveHistory call was made.
C6_NoCredentialsNoMutation ==
    \A p \in Procs : Done(p, "switch") /\ HasCall(p, "Retrieve", FALSE) =>
        /\ result[p] = Fail("CredentialsNotFound")
        /\ loc[p].cur.id # Acct(p).id
        /\ currentAccount = pre[p].currentAccount
        /\ history = pre[p].history
        /\ ~Made(p, "SetCurrentAccount")
        /\ ~Made(p, "SaveHistory")

C6_Witness ==
    \E p \in Procs : Done(p, "switch") /\ HasCall(p, "Retrieve", FALSE)
                     /\ credentials[Acct(p).id] = NoCreds /\ loc[p].cur # NoAccount

\* C7: when writing the target as the config's current account fails, Switch
\* returns an error with no result, the history is as before the call and no
\* SaveHistory call was made.
C7_ConfigFailureLeavesHistory ==
    \A p \in Procs : Done(p, "switch") /\ HasCall(p, "SetCurrentAccount", FALSE) =>
        /\ result[p] = Fail("ConfigUpdateFailed")
        /\ history = pre[p].history
        /\ currentAccount = pre[p].currentAccount
        /\ ~Made(p, "SaveHistory")

C7_Witness ==
    \E p \in Procs : Done(p, "switch") /\ HasCall(p, "SetCurrentAccount", FALSE)
                     /\ loc[p].cur # NoAccount /\ Len(history.entries) > 0

\* C8: once Switch has set the config's current account to the target, it
\* returns success with To = target and the config's current account is the
\* target, whether or not the history entry could be loaded, built or saved.
C8_HistoryFailureNotFatal ==
    \A p \in Procs : Done(p, "switch") /\ HasCall(p, "SetCurrentAccount", TRUE) =>
        /\ result[p].ok
        /\ result[p].To = accountToInfo(Acct(p))
        /\ currentAccount = Acct(p)

C8_Witness ==
    \E p \in Procs : Done(p, "switch") /\ HasCall(p, "SetCurrentAccount", TRUE)
                     /\ HasCall(p, "SaveHistory", FALSE)

\* the call of p resolved its target and the target has the current account's ID
SameAccount(p) ==
    /\ Done(p, "switch") /\ Acct(p) # NoAccount
    /\ loc[p].cur # NoAccount /\ loc[p].cur.id = Acct(p).id

\* C9: when the resolved target has the ID of the config's current account,
\* Switch returns success with From = To (the current account), and makes no
\* SetCurrentAccount and no SaveHistory call: config and history stay as they were.
C9_SameAccountIsNoOp ==
    \A p \in Procs : SameAccount(p) =>
        /\ result[p].ok
        /\ result[p].From = result[p].To
        /\ result[p].From = accountToInfo(pre[p].currentAccount)
        /\ ~Made(p, "SetCurrentAccount")
        /\ ~Made(p, "SaveHistory")
        /\ currentAccount = pre[p].currentAccount
        /\ history = pre[p].history

C9_Witness ==
    \E p \in Procs : SameAccount(p) /\ result[p].ok /\ Len(accounts) = 2

\* C10: after a Switch that returns success for a target t other than the
\* current account, the config's current account is t, To describes t, a
\* stored account, and From describes the account that was current when the
\* call began, or is absent when there was none.
C10_SwitchResult ==
    \A p \in Procs : Done(p, "switch") /\ result[p].ok /\ ~SameAccount(p) =>
        /\ \E k \in 1..Len(pre[p].accounts) : pre[p].accounts[k] = Acct(p)
        /\ currentAccount = Acct(p)
        /\ result[p].To = accountToInfo(Acct(p))
        /\ result[p].From = IF pre[p].currentAccount = NoAccount THEN NoInfo
                            ELSE accountToInfo(pre[p].currentAccount)

C10_Witness ==
    \E p \in Procs : Done(p, "switch") /\ result[p].ok /\ ~SameAccount(p)
                     /\ pre[p].currentAccount # NoAccount
                     /\ result[p].From.Email # result[p].To.Email

\* the number of port calls of that name the call of p made
NumCalls(p, name) == Cardinality({i \in 1..Len(calls[p]) : calls[p][i].name = name})

\* a Switch to an account other than the current one has returned success
Switched(p) == Done(p, "switch") /\ result[p].ok /\ ~SameAccount(p)

\* saveToHistory of the call of p loaded the ledger and saved it, both succeeding
HistorySaved(p) ==
    /\ Len(calls[p]) >= 2
    /\ calls[p][Len(calls[p]) - 1] = Call("LoadHistory", TRUE)
    /\ calls[p][Len(calls[p])] = Call("SaveHistory", TRUE)

\* C11 as stated: a successful Switch to another account makes exactly one
\* history write when a current account existed before the call, and none on a
\* first switch; when load and save succeeded, the persisted ledger is the entry
\* (previous current email, target email) followed by the entries persisted before.
C11_AsStated ==
    \A p \in Procs : Switched(p) =>
        IF pre[p].currentAccount # NoAccount
        THEN /\ NumCalls(p, "SaveHistory") = 1
             /\ (HistorySaved(p) =>
                    history = AddEntry(pre[p].history,
                                       NewSwitchEntry(pre[p].currentAccount.email,
                                                      Acct(p).email)))
        ELSE /\ NumCalls(p, "SaveHistory") = 0
             /\ history = pre[p].history

\* the case C11 misses: the current account and the target have the same email
\* under different IDs, no entry can be built and nothing is written
C11_Witness ==
    \E p \in Procs : Switched(p) /\ pre[p].currentAccount # NoAccount
                     /\ pre[p].currentAccount.email = Acct(p).email
                     /\ NumCalls(p, "SaveHistory") = 0 /\ history = pre[p].history

\* no orchestrator call is in progress
Quiescent == \A p \in Procs : pc[p] \in {"idle", "done"}

\* an account with ID x is stored exactly when credentials for x are stored
OneToOne(accts, creds) ==
    \A x \in IDs : (FindByID(accts, x) # NoAccount) <=> (creds[x] # NoCreds)

\* C12 as stated: in every quiescent state of a run in which every compensating
\* call succeeds, an account with ID x is in the account repository if and only
\* if credentials for x are in the credential store.
C12_AsStated ==
    Quiescent => OneToOne(accounts, credentials)

\* the state C12 misses: a Remove whose backup retrieve failed deleted the
\* credentials, failed to delete the record and had nothing to restore
C12_Witness ==
    \E p \in Procs : /\ RemoveAccountDeleteFailed(p) /\ HasCall(p, "Retrieve", FALSE)
                     /\ ~Made(p, "Store")
                     /\ OneToOne(pre[p].accounts, pre[p].credentials)
                     /\ Stored(Acct(p).id) /\ credentials[Acct(p).id] = NoCreds

\* the stores are as they were when the call of p began
Untouched(p) ==
    /\ accounts = pre[p].accounts
    /\ credentials = pre[p].credentials
    /\ currentAccount = pre[p].currentAccount
    /\ history = pre[p].history

\* an Add has returned whose resolved email was the email of a stored account
AddOfStoredEmail(p) ==
    /\ Done(p, "add") /\ loc[p].email # Empty
    /\ FindByEmail(pre[p].accounts, loc[p].email) # NoAccount

\* C13 as stated: when an account with the resolved email is already stored, Add
\* fails with the duplicate-account error and writes to no store.
C13_AsStated ==
    \A p \in Procs : AddOfStoredEmail(p) =>
        result[p] = Fail("DuplicateAccount") /\ Untouched(p)

\* the state C13 misses: the lookup of the duplicate check returned an error,
\* and Add stored a second account with the email
C13_Witness ==
    \E p \in Procs : /\ AddOfStoredEmail(p) /\ HasCall(p, "FindByEmail", FALSE)
                     /\ result[p].ok /\ Len(accounts) = Len(pre[p].accounts) + 1
                     /\ accounts[1].email = accounts[2].email

\* the error the selector rules give for the input of a Switch, "" when it has
\* exactly one selector
SelectorError(o) ==
    IF o.previous
    THEN IF inputCount(o) > 0 THEN "PreviousConflict" ELSE ""
    ELSE IF inputCount(o) = 0 THEN "NoSelector"
    ELSE IF inputCount(o) > 1 THEN "AmbiguousSelector" ELSE ""

\* a Switch whose context was not cancelled has returned
SwitchReturned(p) == Done(p, "switch") /\ ~op[p].cancelled

\* C14 as stated: a Switch with no selector, with more than one of ID, email,
\* alias and index, or with the previous flag and another selector returns
\* NoSelector, AmbiguousSelector or PreviousConflict with no result and writes
\* to no store.
C14_AsStated ==
    \A p \in Procs : SwitchReturned(p) /\ SelectorError(op[p]) # "" =>
        result[p] = Fail(SelectorError(op[p])) /\ Untouched(p)

\* the state C14 misses: the config read made before the selectors are looked
\* at failed, and its error is what Switch returns
C14_Witness ==
    \E p \in Procs : /\ SwitchReturned(p) /\ SelectorError(op[p]) = "AmbiguousSelector"
                     /\ calls[p] = <<Call("GetCurrentAccount", FALSE)>>
                     /\ result[p] = Fail("GetCurrentFailed")

\* a Switch with the previous flag and no other selector has returned
PreviousAlone(p) == SwitchReturned(p) /\ op[p].previous /\ inputCount(op[p]) = 0

\* the `from` of the newest entry of the ledger as it was when the call began
PreviousFrom(p) == pre[p].history.entries[1].from

\* C15: a Switch with the previous flag alone resolves its target as the stored
\* account whose email is the `from` of the newest history entry; on an empty
\* ledger it fails (with NoHistory once the config read and the history load
\* have succeeded), and when that account is not found or its lookup fails it
\* fails; in both cases config and history are as before the call.
C15_PreviousResolves ==
    \A p \in Procs : PreviousAlone(p) =>
        /\ (Acct(p) # NoAccount =>
                /\ Len(pre[p].history.entries) > 0
                /\ Acct(p) = FindByEmail(pre[p].accounts, PreviousFrom(p)))
        /\ (Len(pre[p].history.entries) = 0 =>
                /\ ~result[p].ok
                /\ (HasCall(p, "LoadHistory", TRUE) => result[p] = Fail("NoHistory"))
                /\ currentAccount = pre[p].currentAccount
                /\ history = pre[p].history)
        /\ (/\ Len(pre[p].history.entries) > 0
            /\ \/ FindByEmail(pre[p].accounts, PreviousFrom(p)) = NoAccount
               \/ HasCall(p, "FindByEmail", FALSE)
            => /\ ~result[p].ok
               /\ currentAccount = pre[p].currentAccount
               /\ history = pre[p].history)

C15_Witness ==
    \E p \in Procs : /\ PreviousAlone(p) /\ result[p].ok
                     /\ Len(pre[p].history.entries) = 2
                     /\ pre[p].history.entries[2].from # PreviousFrom(p)
                     /\ Acct(p).email = PreviousFrom(p)
                     /\ currentAccount = Acct(p)

\* a Switch whose only selector can be the position has returned
ByPosition(p) ==
    /\ SwitchReturned(p) /\ ~op[p].previous
    /\ op[p].accountID = NoID /\ op[p].email = Empty /\ op[p].alias = Empty

\* C16: a Switch by position i resolves to the i-th account of the listing,
\* counting from 1; for i < 1 or i beyond the listing it fails, resolves no
\* target and leaves every store as it was; the error is the selector error
\* (i < 1) once the config read succeeded, and the out-of-range error (i beyond
\* the listing) once the listing was read.
C16_ByPosition ==
    \A p \in Procs : ByPosition(p) =>
        LET i == op[p].index
            n == Len(pre[p].accounts)
        IN  /\ (i \in 1..n =>
                    /\ (Acct(p) # NoAccount => Acct(p) = pre[p].accounts[i])
                    /\ (HasCall(p, "List", TRUE) => Acct(p) = pre[p].accounts[i]))
            /\ (i < 1 \/ i > n =>
                    /\ ~result[p].ok /\ Acct(p) = NoAccount /\ Untouched(p)
                    /\ (i < 1 /\ HasCall(p, "GetCurrentAccount", TRUE)
                            => result[p] = Fail("NoSelector"))
                    /\ (i > n /\ HasCall(p, "List", TRUE)
                            => result[p] = Fail("IndexOutOfRange")))

C16_Witness ==
    \E p \in Procs : /\ ByPosition(p) /\ result[p].ok /\ op[p].index = 2
                     /\ Acct(p) = pre[p].accounts[2] /\ Acct(p) # pre[p].accounts[1]
                     /\ currentAccount = Acct(p)

\* a Remove has returned success
RemoveSucceeded(p) == Done(p, "remove") /\ result[p].ok

\* the account the Remove of p was called for, as stored when the call began
Removed(p) == FindByID(pre[p].accounts, op[p].accountID)

\* that account was the config's current account when the call began
WasCurrent(p) ==
    pre[p].currentAccount # NoAccount /\ pre[p].currentAccount.id = Removed(p).id

\* C17 as stated: after a Remove of account a returned success, a is not in the
\* account repository, the credential store has nothing for a, the config's
\* current account is none if it was a when the call began, and the result
\* reports a's info and whether a was the current account.
C17_AsStated ==
    \A p \in Procs : RemoveSucceeded(p) =>
        /\ ~Stored(Removed(p).id)
        /\ credentials[Removed(p).id] = NoCreds
        /\ (WasCurrent(p) => currentAccount = NoAccount)
        /\ result[p].Removed = accountToInfo(Removed(p))
        /\ result[p].WasCurrentAccount = WasCurrent(p)

\* the state C17 misses: the config read of the removal metadata failed, the
\* account was taken for not current and the config still names it
C17_Witness ==
    \E p \in Procs : /\ RemoveSucceeded(p) /\ WasCurrent(p)
                     /\ HasCall(p, "GetCurrentAccount", FALSE)
                     /\ currentAccount = pre[p].currentAccount
                     /\ ~result[p].WasCurrentAccount

\* a Remove of the only stored account has returned success
RemovedLast(p) == RemoveSucceeded(p) /\ Len(pre[p].accounts) = 1

\* C18 as stated: a Remove of the last remaining account that succeeds reports
\* WasLastAccount, and afterwards the account repository is empty and the
\* config has no current account.
C18_AsStated ==
    \A p \in Procs : RemovedLast(p) =>
        /\ result[p].WasLastAccount
        /\ accounts = <<>>
        /\ currentAccount = NoAccount

\* the state C18 misses: the last account was the current one, the config read
\* of the removal metadata failed and the config still names the account
C18_Witness ==
    \E p \in Procs : /\ RemovedLast(p) /\ WasCurrent(p) /\ result[p].WasLastAccount
                     /\ accounts = <<>> /\ HasCall(p, "GetCurrentAccount", FALSE)
                     /\ currentAccount.id = op[p].accountID

\* a Remove that deleted credentials and record and cleared the config has returned
RemoveCleared(p) ==
    /\ Done(p, "remove") /\ HasCall(p, "Delete", TRUE)
    /\ HasCall(p, "AccountDelete", TRUE) /\ HasCall(p, "SetCurrentAccount", TRUE)

\* C19: once Remove of the current account has deleted credentials and record
\* and cleared the config, it returns success whether or not the history could
\* be loaded or saved: the account and its credentials stay removed and the
\* config's current account stays none.
C19_HistoryFailureKeepsRemoval ==
    \A p \in Procs : RemoveCleared(p) =>
        /\ result[p] = RemoveResult(p)
        /\ result[p].ok /\ result[p].WasCurrentAccount
        /\ ~Stored(Acct(p).id)
        /\ credentials[Acct(p).id] = NoCreds
        /\ currentAccount = NoAccount

C19_Witness ==
    \E p \in Procs : /\ RemoveCleared(p) /\ HasCall(p, "LoadHistory", FALSE)
                     /\ result[p].ok /\ currentAccount = NoAccount
                     /\ pre[p].currentAccount.id = Acct(p).id

\* the call of p is a Switch, a Remove with an account ID or a listing, and
\* its context was cancelled before the call
CancelledCall(p) ==
    /\ op[p].cancelled
    /\ \/ op[p].name \in {"switch", "list"}
       \/ op[p].name = "remove" /\ op[p].accountID # NoID

\* C20: a Switch, a Remove with a non-empty account ID and a listing called
\* with a cancelled context make no call to any store, leave every store as it
\* was and return the cancellation error with no result.
C20_CancelledMakesNoStoreCall ==
    \A p \in Procs : CancelledCall(p) =>
        /\ calls[p] = <<>>
        /\ Untouched(p)
        /\ (pc[p] = "done" => result[p] = Fail("Cancelled"))

C20_Witness ==
    \E p \in Procs : /\ CancelledCall(p) /\ Done(p, "remove")
                     /\ Stored(op[p].accountID) /\ credentials[op[p].accountID] # NoCreds
                     /\ result[p] = Fail("Cancelled")

\* C21 as stated: an Add called with a cancelled context makes no call to any
\* store, returns the cancellation error and writes neither credentials nor
\* an account record.
C21_AsStated ==
    \A p \in Procs : op[p].name = "add" /\ op[p].cancelled =>
        /\ calls[p] = <<>>
        /\ credentials = pre[p].credentials
        /\ accounts = pre[p].accounts
        /\ (pc[p] = "done" => result[p] = Fail("Cancelled"))

\* the state C21 misses: the Add went through and stored the account
C21_Witness ==
    \E p \in Procs : /\ Done(p, "add") /\ op[p].cancelled /\ result[p].ok
                     /\ HasCall(p, "Store", TRUE) /\ HasCall(p, "Save", TRUE)
                     /\ Len(accounts) = Len(pre[p].accounts) + 1
                     /\ credentials[Acct(p).id] # NoCreds

\* the validation, conflict and not-found errors of the three orchestrators
RejectionErrors ==
    {"ValidationError", "CredentialsRequired", "NoCurrentIdentity", "DuplicateAccount",
     "NoSelector", "AmbiguousSelector", "PreviousConflict", "AccountNotFound",
     "IndexOutOfRange", "NoHistory", "CredentialsNotFound",
     "MissingAccountID", "NotFound"}

\* the call of p returned one of these errors
Rejected(p) ==
    /\ pc[p] = "done" /\ op[p].name \in {"add", "switch", "remove"}
    /\ result[p].err \in RejectionErrors

\* C22: an Add, Switch or Remove that fails with a validation, conflict or
\* not-found error leaves account repository, credential store, config and
\* history as they were before the call, and has written to none of them.
C22_RejectionHasNoSideEffects ==
    \A p \in Procs : Rejected(p) =>
        /\ ~result[p].ok
        /\ Untouched(p)
        /\ \A i \in 1..Len(calls[p]) :
               calls[p][i].name \notin {"Store", "Save", "Delete", "AccountDelete",
                                        "SetCurrentAccount", "SaveHistory"}

C22_Witness ==
    \E p \in Procs : /\ Rejected(p) /\ Done(p, "add")
                     /\ result[p] = Fail("ValidationError")
                     /\ loc[p].email = EmailDotted
                     /\ Len(accounts) = 1 /\ Untouched(p)

\* C23 as stated: when a Switch to an account has succeeded, the stored
\* account's lastUsed is not earlier than the time of the switch.
C23_AsStated ==
    \A p \in Procs : Switched(p) /\ Stored(Acct(p).id) =>
        FindByID(accounts, Acct(p).id).lastUsed >= now

\* the state C23 misses: the account became current after the clock advanced,
\* and its stored lastUsed is still the time it was created
C23_Witness ==
    \E p \in Procs : /\ Switched(p) /\ currentAccount = Acct(p)
                     /\ accounts = pre[p].accounts
                     /\ FindByID(accounts, Acct(p).id).lastUsed < now

\* an Add with an explicit valid email, no alias and credentials has returned;
\* no account with that email was stored when it was called and no call on the
\* credential store or the account repository failed
PlainAdd(p) ==
    /\ Done(p, "add")
    /\ ValidateEmail(op[p].email) = ""
    /\ op[p].alias = Empty
    /\ op[p].data # NoCreds
    /\ FindByEmail(pre[p].accounts, op[p].email) = NoAccount
    /\ ~HasCall(p, "Store", FALSE)
    /\ ~HasCall(p, "Save", FALSE)
\* the stored accounts with this email
WithEmail(accts, email) == {k \in 1..Len(accts) : accts[k].email = email}

\* C24 as stated: for every valid email, Add with that explicit email, no alias
\* and non-empty credentials, with no account of that email stored and no store
\* failure, succeeds, and the listing then has exactly one account with that
\* email, whose alias is the text of the email before '@'.
C24_AsStated ==
    \A p \in Procs : PlainAdd(p) =>
        /\ result[p].ok
        /\ Cardinality(WithEmail(accounts, op[p].email)) = 1
        /\ \A k \in WithEmail(accounts, op[p].email) :
               accounts[k].alias = generateAlias(Empty, op[p].email)
\* an Add of a valid email with a dot before '@' was rejected for its alias
C24_Witness ==
    \E p \in Procs : /\ PlainAdd(p) /\ op[p].email = EmailDotted
                     /\ result[p] = Fail("ValidationError")
                     /\ calls[p] = <<Call("FindByEmail", FALSE)>>
                     /\ accounts = pre[p].accounts

\* the first n elements of a sequence, or all of it when it is shorter
Newest(seq, n) == SubSeq(seq, 1, IF Len(seq) < n THEN Len(seq) ELSE n)

\* C25: a History never holds more than maxEntries entries, whatever AddEntry,
\* Clear and Entries calls were made; its entries are the most recently
\* inserted ones, newest first, all of them up to maxEntries and exactly the
\* maxEntries newest beyond; and maxEntries stays the constructor argument if
\* that was positive, else 10.
C25_HistoryBounded ==
    /\ Len(tracker.entries) <= tracker.maxEntries
    /\ Len(listed) <= tracker.maxEntries
    /\ tracker.entries = Newest(inserted, tracker.maxEntries)
    /\ tracker.maxEntries = IF maxArg > 0 THEN maxArg ELSE DefaultMaxEntries
\* more entries than the bound were inserted, the oldest one was trimmed away
\* and Entries returned the survivors
C25_Witness ==
    /\ maxArg = 2
    /\ Len(inserted) = 4
    /\ Len(tracker.entries) = 2
    /\ \A k \in 1..2 : tracker.entries[k] # inserted[4]
    /\ listed = tracker.entries

\* the emails a switch entry is asked for
EntryEmails == {Empty, EmailP, EmailW, EmailDotted}
WellFormed(entry) ==
    entry.from # Empty /\ entry.to # Empty /\ entry.from # entry.to
\* a Switch has returned that was refused its ledger entry
EntryRefused(p) ==
    /\ Done(p, "switch") /\ Made(p, "LoadHistory") /\ ~Made(p, "SaveHistory")
    /\ loc[p].cur.email = Acct(p).email

\* C26: NewSwitchEntry fails exactly when from is empty, to is empty or from
\* equals to, and every entry of the ledger the history repository holds has
\* non-empty from and to that differ.
C26_EntriesWellFormed ==
    /\ \A from \in EntryEmails, to \in EntryEmails :
           NewSwitchEntryErr(from, to) # "" <=> ~WellFormed(NewSwitchEntry(from, to))
    /\ \A k \in 1..Len(history.entries) : WellFormed(history.entries[k])
\* the ledger holds an entry that Switch saved, and a later Switch between two
\* accounts of the same email was refused its entry
C26_Witness ==
    \E p \in Procs : /\ EntryRefused(p)
                     /\ Acct(p).id # loc[p].cur.id
                     /\ currentAccount = Acct(p)
                     /\ Len(history.entries) = 1
                     /\ history = pre[p].history

\* C27: credentials sealed from a non-empty payload under a non-empty account
\* ID decrypt to that payload: after NewCredentials, after UpdateData (to the
\* new payload, the account ID unchanged), and after Serialize followed by
\* DeserializeCredentials (same account ID, the key derived from it again).
C27_RoundTrip ==
    cred # NoCredentials /\ credOf.genuine =>
        /\ cred.accountID = credOf.id
        /\ cred.encryptionKey = deriveKey(credOf.id)
        /\ Decrypt(cred) = Plain(credOf.data)
        /\ opened \in {NotOpened, Plain(credOf.data)}
        /\ DeserializeCredentialsErr(Serialize(cred)) = ""
        /\ DeserializeCredentials(Serialize(cred)) = cred
\* credentials that were updated, serialized and deserialized were decrypted
\* to the two-byte payload of the update
C27_Witness ==
    /\ credOf.genuine /\ credOf.updated /\ credOf.restored
    /\ cred = DeserializeCredentials(doc)
    /\ Len(credOf.data) = 2
    /\ opened = Plain(credOf.data)

\* the sealed payload with one byte changed, in every position
Flipped(bytes) ==
    {[bytes EXCEPT ![i] = (@ + d) % 256] : i \in 1..Len(bytes), d \in Deltas}

\* C28: decryption fails closed.  Decrypt returns an error and no plaintext for
\* a payload shorter than one nonce, for a payload one byte of which was
\* changed, and under the key of another account ID.
C28_FailsClosed ==
    /\ cred # NoCredentials /\ ~credOf.genuine =>
           /\ ~Decrypt(cred).ok /\ Decrypt(cred).data = <<>>
           /\ opened \in {NotOpened, Decrypt(cred)}
    /\ cred # NoCredentials /\ credOf.genuine =>
           /\ \A k \in 0..(NonceSize - 1) :
                  decrypt(SubSeq(cred.encryptedData, 1, k), cred.encryptionKey)
                      = Failed("ciphertext too short")
           /\ \A changed \in Flipped(cred.encryptedData) :
                  decrypt(changed, cred.encryptionKey)
                      = Failed("cipher: message authentication failed")
           /\ \A id \in IDs \ {cred.accountID} :
                  decrypt(cred.encryptedData, deriveKey(id))
                      = Failed("cipher: message authentication failed")
\* credentials read back from a file that was changed on disk were decrypted,
\* and Decrypt returned the authentication error
C28_Witness ==
    /\ cred # NoCredentials /\ ~credOf.genuine /\ credOf.restored
    /\ cred = DeserializeCredentials(doc)
    /\ Len(cred.encryptedData) > NonceSize
    /\ opened = Failed("cipher: message authentication failed")

\* the IDs of the records in the file
FileIDs == {accounts[k].id : k \in 1..Len(accounts)}
\* caller p is between its lock and its unlock
Holding(p) == pc[p] \in {"file_load", "file_write"}
\* the call of p was a Save that returned success and began on an empty file
SavedFromEmpty(p) ==
    Done(p, "file.Save") /\ result[p].ok /\ pre[p].accounts = <<>>

\* C29: the repository's lock serialises its calls.  No caller is inside Save
\* or Delete while another is inside Save, Delete or List, and no update is
\* lost: the file holds exactly the IDs whose last successful write was a Save,
\* so that after concurrent Saves of distinct IDs that all returned success it
\* holds every one of them.
C29_NoLostUpdate ==
    /\ \A p \in Procs : \A q \in Procs \ {p} :
           Holding(p) /\ Holding(q) => op[p].name = "file.List" /\ op[q].name = "file.List"
    /\ FileIDs = committed
\* two Saves of distinct IDs that both began on the empty file, hence ran
\* concurrently, have returned success, and the file holds both records
C29_Witness ==
    /\ \A p \in Procs : SavedFromEmpty(p)
    /\ \A p \in Procs : op[p].accountID \in FileIDs
    /\ \A p \in Procs : \A q \in Procs \ {p} : op[p].accountID # op[q].accountID
    /\ Len(accounts) = 2

\* two stored accounts have the same non-empty alias
SharedAlias(a) ==
    /\ a # Empty
    /\ \E j \in 1..Len(accounts) : \E k \in 1..Len(accounts) :
           j # k /\ accounts[j].alias = a /\ accounts[k].alias = a

\* C30 as stated: alias uniqueness is enforced: after any sequence of Add
\* calls no two stored accounts have the same non-empty alias.
C30_AsStated ==
    \A j \in 1..Len(accounts) : ~SharedAlias(accounts[j].alias)
\* an Add of w@x.io with the alias p, which the stored account of p@x.io has,
\* has returned success, and both accounts are stored under that alias
C30_Witness ==
    \E p \in Procs : /\ Done(p, "add") /\ result[p].ok /\ ~op[p].cancelled
                     /\ op[p].email = EmailW /\ op[p].alias = AliasP
                     /\ HasCall(p, "FindByEmail", FALSE)
                     /\ FindByEmail(pre[p].accounts, EmailP).alias = AliasP
                     /\ FindByEmail(accounts, EmailW).alias = AliasP
                     /\ FindByEmail(accounts, EmailP).alias = AliasP
                     /\ SharedAlias(AliasP)

\* the config's current account has this ID
CurrentIs(id) == currentAccount # NoAccount /\ currentAccount.id = id

\* C35 as stated: after a Remove of account a returned success, the config's
\* current account does not have a's ID, whatever store calls failed during
\* the call.
C35_AsStated ==
    \A p \in Procs : RemoveSucceeded(p) => ~CurrentIs(op[p].accountID)
\* a Remove of the current account whose read of the config failed has deleted
\* credentials and record and returned success without a config write, and
\* the config still names the removed account
C35_Witness ==
    \E p \in Procs : /\ RemoveSucceeded(p) /\ CurrentIs(op[p].accountID)
                     /\ HasCall(p, "GetCurrentAccount", FALSE)
                     /\ HasCall(p, "Delete", TRUE) /\ HasCall(p, "AccountDelete", TRUE)
                     /\ ~Made(p, "SetCurrentAccount")
                     /\ ~Stored(op[p].accountID)
                     /\ credentials[op[p].accountID] = NoCreds

\* an Add has returned
AddReturned(p) == Done(p, "add")
\* every account stored when the call of p began is stored with the same ID,
\* email and alias, and its credentials are what they were
Preserved(p) ==
    \A k \in 1..Len(pre[p].accounts) :
        LET before == pre[p].accounts[k]
            after == FindByID(accounts, before.id)
        IN  /\ after # NoAccount
            /\ after.email = before.email
            /\ after.alias = before.alias
            /\ credentials[before.id] = pre[p].credentials[before.id]

\* C39 as stated: Add never overwrites or deletes data of an account that was
\* already stored: whatever ID the generator returns, after Add has returned
\* every account present before the call is stored with the same ID, email and
\* alias, and its credentials are the ones stored before.
C39_AsStated ==
    \A p \in Procs : AddReturned(p) => Preserved(p)
\* an Add whose generated ID was the ID of a stored account has returned
\* success, and the record stored under that ID now carries the new email
C39_Witness ==
    \E p \in Procs : /\ AddReturned(p) /\ result[p].ok
                     /\ FindByID(pre[p].accounts, Acct(p).id) # NoAccount
                     /\ FindByID(pre[p].accounts, Acct(p).id).email # Acct(p).email
                     /\ FindByID(accounts, Acct(p).id) = Acct(p)
                     /\ Len(accounts) = Len(pre[p].accounts)

\* a Switch has returned
SwitchDone(p) == Done(p, "switch")
\* the ledger is the ledger of before the call, or that ledger with one entry
\* put in front and trimmed to its bound
LedgerKept(p) ==
    LET old == pre[p].history.entries
    IN  \/ history.entries = old
        \/ /\ Len(history.entries) >= 1
           /\ history.entries =
                  Newest(<<history.entries[1]>> \o old, pre[p].history.maxEntries)

\* C38 as stated: a Switch never discards persisted history entries other than
\* by trimming the oldest beyond maxEntries: after any Switch the persisted
\* entries of before the call are still persisted, in the same order, whatever
\* store calls failed.
C38_AsStated ==
    \A p \in Procs : SwitchDone(p) => LedgerKept(p)
\* a Switch whose LoadHistory failed and whose SaveHistory succeeded has
\* returned success, and the ledger holds its entry alone where it held one
\* before
C38_Witness ==
    \E p \in Procs : /\ SwitchDone(p) /\ result[p].ok
                     /\ HasCall(p, "LoadHistory", FALSE) /\ HasCall(p, "SaveHistory", TRUE)
                     /\ Len(pre[p].history.entries) = 1
                     /\ Len(history.entries) = 1
                     /\ history.entries[1] # pre[p].history.entries[1]
                     /\ history.maxEntries = FallbackMaxEntries

\* account a carries the email and the uuid of the identity cur
Derived(a, cur) ==
    a # NoAccount /\ cur # NoAccount /\ a.email = cur.email /\ a.uuid = cur.uuid
\* an Add without an email, which takes the configured identity, has stored
\* its account
AddedIdentity(p) == Done(p, "add") /\ result[p].ok /\ op[p].email = Empty

\* C36 as stated: the account Add stored from the configured identity is
\* recognised as the current account: it has the ID of the config's current
\* account, a Switch that targets it is a no-op without config or history
\* write, and a Remove of it reports WasCurrentAccount and clears the config.
C36_AsStated ==
    \A p \in Procs :
        /\ AddedIdentity(p) => CurrentIs(Acct(p).id)
        /\ Done(p, "switch") /\ result[p].ok /\ Derived(Acct(p), pre[p].currentAccount)
               => ~Made(p, "SetCurrentAccount") /\ ~Made(p, "SaveHistory")
        /\ RemoveSucceeded(p) /\ Derived(Removed(p), pre[p].currentAccount)
               => result[p].WasCurrentAccount /\ currentAccount = NoAccount
\* Add has stored the configured identity under an ID of its own, every store
\* call succeeding, and the config's current account has another ID
C36_Witness ==
    \E p \in Procs : /\ AddedIdentity(p)
                     /\ calls[p] = <<Call("GetCurrentAccount", TRUE), Call("FindByEmail", FALSE),
                                     Call("Store", TRUE), Call("Save", TRUE)>>
                     /\ Derived(Acct(p), currentAccount)
                     /\ FindByID(accounts, Acct(p).id) = Acct(p)
                     /\ ~CurrentIs(Acct(p).id)

\* the call of p was a Switch that wrote a new current account to the config
Changed(p) == Done(p, "switch") /\ result[p].ok /\ HasCall(p, "SetCurrentAccount", TRUE)

\* the call of p was a Switch with the previous flag that returned success
PreviousSucceeded(p) == Done(p, "switch") /\ op[p].previous /\ result[p].ok

\* the account that was current when the call of p began is current now
Restored(p) ==
    /\ pre[p].currentAccount # NoAccount
    /\ CurrentIs(pre[p].currentAccount.id)

\* C37 as stated: when a Switch with the previous flag succeeds right after a
\* call that changed the current account, the current account is the one that
\* was current before that change; and two successful previous-switches in a
\* row restore the account that was current before the first of them.
C37_AsStated ==
    PreviousSucceeded(Second) =>
        /\ (Changed(Main) => Restored(Main))
        /\ (PreviousSucceeded(Main) => Restored(Main))

\* C37, the case: a Switch from one stored account to another wrote the config
\* while its SaveHistory failed, so the ledger kept an older newest entry; the
\* previous-switch that followed resolved the account just made current,
\* returned the no-op success, and the account current before the change was
\* not restored.
C37_Witness ==
    /\ Changed(Main) /\ HasCall(Main, "SaveHistory", FALSE)
    /\ pre[Main].currentAccount # NoAccount
    /\ PreviousSucceeded(Second) /\ ~Made(Second, "SetCurrentAccount")
    /\ pre[Second].currentAccount = currentAccount
    /\ Len(pre[Second].history.entries) > 0
    /\ Acct(Second) = FindByEmail(accounts, pre[Second].history.entries[1].from)
    /\ CurrentIs(Acct(Second).id)
    /\ ~Restored(Main)

\* no two stored accounts have the same email
UniqueEmails ==
    \A i \in 1..Len(accounts) : \A j \in 1..Len(accounts) :
        accounts[i].email = accounts[j].email => i = j

\* C33 as stated: after any interleaving of Add calls, one after the other or at
\* the same time, with any store call failing, no two stored accounts have the
\* same email.
C33_AsStated == UniqueEmails

\* C33, the case: two Adds of the same email began on the same repository, each
\* looked the email up before the other had saved, both returned success, and
\* the repository holds two accounts with that email.
C33_Witness ==
    /\ \A p \in Procs : Done(p, "add") /\ result[p].ok
                        /\ HasCall(p, "FindByEmail", FALSE) /\ HasCall(p, "Save", TRUE)
    /\ op[Main].email = op[Second].email
    /\ pre[Main].accounts = <<>> /\ pre[Second].accounts = <<>>
    /\ Acct(Main).id # Acct(Second).id
    /\ Len(accounts) = 2
    /\ accounts[1].email = accounts[2].email

\* every port call of the call of p succeeded
AllSucceeded(p) == \A i \in 1..Len(calls[p]) : calls[p][i].ok

\* a Switch and a Remove of the account the Switch resolved have both returned
\* success
BothSucceeded ==
    /\ Done(Main, "switch") /\ result[Main].ok
    /\ RemoveSucceeded(Second)
    /\ Acct(Main).id = op[Second].accountID

\* C34 as stated: when a Switch to w and a Remove of w run at the same time, it
\* never happens that both return success and the config's current account is
\* then w.
C34_AsStated == BothSucceeded => ~CurrentIs(op[Second].accountID)

\* C34, the case: every port call of both calls succeeded; the Switch resolved w
\* and retrieved its credentials before the Remove deleted them, and wrote the
\* config after the Remove had found that w was not current; both returned
\* success, w is current, is not stored and has no credentials.
C34_Witness ==
    /\ BothSucceeded /\ AllSucceeded(Main) /\ AllSucceeded(Second)
    /\ HasCall(Main, "SetCurrentAccount", TRUE)
    /\ ~Made(Second, "SetCurrentAccount")
    /\ CurrentIs(op[Second].accountID)
    /\ ~Stored(op[Second].accountID)
    /\ credentials[op[Second].accountID] = NoCreds

\* the call c to the BasicConfigManager ended in a run-time panic
Panicked(c) ==
    c.err \in {"panic: nil pointer dereference", "panic: assignment to entry in nil map"}

\* the call c was SetCurrentAccount(nil)
SetNone(c) == c.name = "set" /\ c.arg = NoAccount

\* C31 as stated: the BasicConfigManager accepts "no account":
\* SetCurrentAccount(nil) returns without a fault, and when it returned no
\* error the GetCurrentAccount after it returns no account.
C31_AsStated ==
    /\ (SetNone(last) => ~Panicked(last))
    /\ (/\ last.name = "get" /\ last.err = ""
        /\ SetNone(prior) /\ prior.err = ""
        => last.account = NoAccount)

\* C31, the case: the file names an account, SetCurrentAccount(nil) read and
\* parsed it, dereferenced the nil account and panicked; the file still names
\* the account.
C31_Witness ==
    /\ SetNone(last) /\ last.err = "panic: nil pointer dereference"
    /\ last.before.kind = "object" /\ last.before.oauth = OAuth(EmailP, <<"uuid-123">>)
    /\ configFile = last.before

\* the last call was a SetCurrentAccount that returned no error
SetSucceeded == last.name = "set" /\ last.err = ""

\* C32: a SetCurrentAccount that returns no error leaves a JSON object in which
\* every top-level key other than oauthAccount that was present before is
\* present with the same value, no other key has appeared, and oauthAccount
\* carries the emailAddress and the accountUuid of the account given.
C32_OnlyOAuthChanges ==
    SetSucceeded =>
        /\ configFile.kind = "object"
        /\ configFile.rest = last.before.rest
        /\ configFile.oauth = OAuth(last.arg.email, last.arg.uuid)

\* C32, the case: the file held both other keys and another account's
\* oauthAccount entry; after the call the entry is the new account's and both
\* other keys are as they were.
C32_Witness ==
    /\ SetSucceeded
    /\ last.before.kind = "object"
    /\ DOMAIN last.before.rest = OtherKeys
    /\ last.before.oauth = OAuth(EmailP, <<"uuid-123">>)
    /\ last.arg.email = EmailW
    /\ configFile.oauth = OAuth(EmailW, ExplicitUUID(EmailW))
    /\ configFile.rest = last.before.rest

\* C40 as stated: the GetCurrentAccount after a SetCurrentAccount(a) that
\* returned no error returns an account with a's ID, email and UUID; and two
\* GetCurrentAccount calls in a row that return accounts return the same ID.
C40_AsStated ==
    /\ (/\ last.name = "get" /\ last.err = ""
        /\ prior.name = "set" /\ prior.err = ""
        => /\ last.account # NoAccount
           /\ last.account.id = prior.arg.id
           /\ last.account.email = prior.arg.email
           /\ last.account.uuid = prior.arg.uuid)
    /\ (/\ last.name = "get" /\ last.account # NoAccount
        /\ prior.name = "get" /\ prior.account # NoAccount
        => last.account.id = prior.account.id)

\* C40, the case: SetCurrentAccount(a) returned no error and the
\* GetCurrentAccount after it returned an account with a's email and UUID, a
\* newly generated ID that is not a's, and no alias.
C40_Witness ==
    /\ last.name = "get" /\ last.err = "" /\ last.account # NoAccount
    /\ prior.name = "set" /\ prior.err = "" /\ prior.arg # NoAccount
    /\ last.account.email = prior.arg.email
    /\ last.account.uuid = prior.arg.uuid
    /\ last.account.id # prior.arg.id
    /\ last.account.alias = Empty /\ prior.arg.alias # Empty
====
